---- MODULE Spec2Model ----
\* A model of revm-jit's compiler (crates/revm-jit/src/compiler.rs):
\*   - the JitEvm driver (configuration setters, the compile pipeline, the
\*     function-name counter), specification SpecJit;
\*   - the function that FunctionCx::translate emits, executed one opcode
\*     block at a time on a stack buffer, a stack-length cell and a gas
\*     struct, specification Spec.
\* Words are WordBits wide and the isize gas cells GasBits wide (the source
\* uses 256 and 64); all arithmetic wraps at those widths.
EXTENDS Integers, Sequences, FiniteSets, TLC

VARIABLES
    \* ---- JitEvm (driver) ----
    out_dir,            \* JitEvm.out_dir: "None" or "Some"
    config,             \* JitEvm.config: FcxConfig
    function_counter,   \* JitEvm.function_counter
    backend,            \* what the driver has told the backend (B)
    stage,              \* position inside compile(), "idle" between calls
    trace,              \* backend calls made by the current compile call
    outcome,            \* how the last compile call ended
    \* ---- the bytecode being compiled / that was compiled ----
    bytecode,           \* Bytecode: [spec, raw, opcodes]
    \* ---- one invocation of the emitted function ----
    args,               \* the three pointer arguments (null or not)
    gas_limit,          \* FunctionCx.gas_limit (value fixed by the prologue)
    gas_used,           \* the isize cell FunctionCx.gas_used points to
    stack,              \* the buffer FunctionCx.sp points to
    stack_len,          \* the isize cell FunctionCx.stack_len points to
    pc,                 \* index of the opcode block control is in (-1: entry)
    result,             \* the returned InstructionResult, or how the call ended
    hist,               \* history: the state before the last opcode, its accesses
    log                 \* history: compile calls made, names allocated, files dumped

vars == <<out_dir, config, function_counter, backend, stage, trace, outcome,
          bytecode, args, gas_limit, gas_used, stack, stack_len, pc, result, hist,
          log>>

jit_vars == <<out_dir, config, function_counter, backend, stage, trace, outcome, log>>
call_vars == <<args, gas_limit, gas_used, stack, stack_len, pc, result, hist>>

-----------------------------------------------------------------------------
\* Bounds and program constants

STACK_CAP == 1024

\* Width of a stack word (256 in the source).
WordBits == 9
WordMod == 2^WordBits
Word == 0..(WordMod - 1)

\* Width of the isize gas cells (64 in the source).
GasBits == 14
GasMod == 2^GasBits

\* Cap on JitEvm.function_counter.
MaxCompiles == 2

\* Cap on the number of compile calls made on one JitEvm.
MaxCalls == 3

\* Opcode bytes (revm_interpreter::opcode).
op_STOP == 0
op_ADD == 1
op_MUL == 2
op_SUB == 3
op_DIV == 4
op_SDIV == 5
op_MOD == 6
op_SMOD == 7
op_ADDMOD == 8
op_LT == 16
op_GT == 17
op_SLT == 18
op_SGT == 19
op_EQ == 20
op_ISZERO == 21
op_AND == 22
op_OR == 23
op_XOR == 24
op_NOT == 25
op_SHL == 27
op_SHR == 28
op_SAR == 29
op_UNKNOWN21 == 33
op_ADDRESS == 48
op_POP == 80
op_JUMP == 86
op_JUMPI == 87
op_PC == 88
op_JUMPDEST == 91
op_PUSH0 == 95
op_PUSH1 == 96
op_PUSH2 == 97
op_PUSH32 == 127
op_DUP1 == 128
op_DUP2 == 129
op_DUP3 == 130
op_DUP16 == 143
op_SWAP1 == 144
op_SWAP2 == 145
op_SWAP16 == 159
op_INVALID == 254

\* InstructionResult values the emitted function returns.
ReturnCodes == {"Stop", "StackOverflow", "StackUnderflow", "OutOfGas",
                "InvalidJump", "InvalidFEOpcode", "NotActivated", "OpcodeNotFound"}
\* The call is still running.
NoRet == "Running"

-----------------------------------------------------------------------------
\* 256-bit (here WordBits-bit) builder operations

Wrap(x) == x % WordMod

HalfMod == 2^(WordBits - 1)
ToSigned(x) == IF x >= HalfMod THEN x - WordMod ELSE x
Abs(x) == IF x < 0 THEN 0 - x ELSE x

RECURSIVE BitOp(_, _, _, _)
\* bitwise combination of the low n bits of a and b; f names the operation
BitOp(f, a, b, n) ==
    IF n = 0 THEN 0
    ELSE LET x == a % 2
             y == b % 2
             bit == CASE f = "and" -> IF x = 1 /\ y = 1 THEN 1 ELSE 0
                      [] f = "or"  -> IF x = 1 \/ y = 1 THEN 1 ELSE 0
                      [] OTHER     -> IF x # y THEN 1 ELSE 0
         IN bit + 2 * BitOp(f, a \div 2, b \div 2, n - 1)

iadd(a, b) == Wrap(a + b)
isub(a, b) == Wrap(a - b + WordMod)
imul(a, b) == Wrap(a * b)
udiv(a, b) == a \div b
urem(a, b) == a % b
\* signed division truncates toward zero; the remainder takes the dividend's sign
sdiv(a, b) ==
    LET sa == ToSigned(a)
        sb == ToSigned(b)
        q == Abs(sa) \div Abs(sb)
    IN Wrap((IF (sa < 0) # (sb < 0) THEN 0 - q ELSE q) + WordMod)
srem(a, b) ==
    LET sa == ToSigned(a)
        sb == ToSigned(b)
        r == Abs(sa) % Abs(sb)
    IN Wrap((IF sa < 0 THEN 0 - r ELSE r) + WordMod)
bitand(a, b) == BitOp("and", a, b, WordBits)
bitor(a, b) == BitOp("or", a, b, WordBits)
bitxor(a, b) == BitOp("xor", a, b, WordBits)
bitnot(a) == WordMod - 1 - a
\* shifts by less than the width; a wider shift has no defined result
ishl(a, b) == Wrap(a * 2^b)
ushr(a, b) == a \div 2^b
sshr(a, b) == Wrap((ToSigned(a) \div 2^b) + WordMod)
zext(c) == IF c THEN 1 ELSE 0

\* IntCC over isize values: the stack length is an isize, compared unsigned
ULT(a, b) == IF a < 0 THEN FALSE ELSE a < b
UGT(a, b) == IF a < 0 THEN TRUE ELSE a > b

-----------------------------------------------------------------------------
\* Bytecode analysis (Bytecode::new / Bytecode::analyze).  raw is the source
\* byte sequence; byte offsets and opcode indices are 0-based as in the source,
\* so the opcode with index k is opcodes[k + 1].

IsPush(b) == b >= op_PUSH1 /\ b <= op_PUSH32
ImmLen(b) == IF IsPush(b) THEN b - op_PUSH0 ELSE 0
Min(a, b) == IF a < b THEN a ELSE b

\* Opcodes the fork does not enable: PUSH0 exists from SHANGHAI on.
IsDisabledIn(spec, b) == spec = "LONDON" /\ b = op_PUSH0

RECURSIVE Decode(_, _, _)
\* decode pass: one OpcodeData per opcode from 1-based position pos on;
\* data is the immediate's byte offset for PUSHn and the pc for PC
Decode(raw, spec, pos) ==
    IF pos > Len(raw) THEN <<>>
    ELSE LET b == raw[pos]
         IN <<[opcode |-> b,
               flags |-> IF IsDisabledIn(spec, b) THEN {"DISABLED"} ELSE {},
               data |-> IF IsPush(b) THEN pos ELSE IF b = op_PC THEN pos - 1 ELSE 0]>>
            \o Decode(raw, spec, pos + 1 + ImmLen(b))

RECURSIVE DecodePcs(_, _)
\* pc recording: the source byte offset of every decoded opcode
DecodePcs(raw, pos) ==
    IF pos > Len(raw) THEN <<>>
    ELSE <<pos - 1>> \o DecodePcs(raw, pos + 1 + ImmLen(raw[pos]))

\* the immediate bytes of a PUSHn, cut short by the end of the bytecode
get_imm_of(raw, data) ==
    SubSeq(raw, data.data + 1, Min(data.data + ImmLen(data.opcode), Len(raw)))

RECURSIVE from_be_slice(_)
\* U256::from_be_slice, reduced to the word width
from_be_slice(bytes) ==
    IF bytes = <<>> THEN 0
    ELSE Wrap(256 * from_be_slice(SubSeq(bytes, 1, Len(bytes) - 1)) + bytes[Len(bytes)])

RECURSIVE JumpTargetOf(_)
\* the constant a PUSH before a jump pushes, as a byte offset; -1 when it
\* does not fit (any byte above the low two set: beyond every modelled program)
JumpTargetOf(bytes) ==
    IF bytes = <<>> THEN 0
    ELSE IF Len(bytes) > 2
         THEN IF bytes[1] # 0 THEN -1 ELSE JumpTargetOf(Tail(bytes))
         ELSE IF Len(bytes) = 2 THEN 256 * bytes[1] + bytes[2] ELSE bytes[1]

\* flag population for the opcode with 1-based position k of the decoded ops
AnalyzeAt(raw, ops, pcs, k) ==
    LET d == ops[k]
        pushBefore == k > 1 /\ IsPush(ops[k - 1].opcode)
        pushBeforeJump == k < Len(ops) /\ IsPush(d.opcode)
                          /\ ops[k + 1].opcode \in {op_JUMP, op_JUMPI}
    IN IF d.opcode \in {op_JUMP, op_JUMPI} /\ pushBefore
       THEN LET t == JumpTargetOf(get_imm_of(raw, ops[k - 1]))
                hits == {j \in 1..Len(ops) : pcs[j] = t /\ ops[j].opcode = op_JUMPDEST}
            IN IF hits # {}
               THEN [d EXCEPT !.flags = @ \cup {"STATIC_JUMP"},
                              !.data = (CHOOSE j \in hits : TRUE) - 1]
               ELSE [d EXCEPT !.flags = @ \cup {"STATIC_JUMP", "INVALID_JUMP"}]
       ELSE IF pushBeforeJump
       THEN [d EXCEPT !.flags = @ \cup {"SKIP_LOGIC"}]
       ELSE d

\* analyze(raw_bytes, spec): empty input yields a single synthesized STOP
Analyze(raw, spec) ==
    LET ops == Decode(raw, spec, 1)
        pcs == DecodePcs(raw, 1)
    IN [spec |-> spec,
        raw |-> raw,
        opcodes |-> IF raw = <<>>
                    THEN <<[opcode |-> op_STOP, flags |-> {}, data |-> 0]>>
                    ELSE [k \in 1..Len(ops) |-> AnalyzeAt(raw, ops, pcs, k)]]

-----------------------------------------------------------------------------
\* The emitted function.  What translate_opcode emits for one opcode is given
\* as its effect on a machine record m:
\*   len, stack, gas_used : the cells and the buffer the function works on
\*   ret    : the returned InstructionResult, NoRet while the block runs on
\*   next   : the opcode block the terminator branches to, NoNext for none
\*   vals   : the values of the last popn
\*   acc    : the stack-buffer indices loaded or stored by this opcode
\*   derefs : the pointer arguments dereferenced by this opcode
\*   undef  : "none", or the undefined operation that was executed
\* u stands for the value an undefined read or operation yields.

NoNext == -2

NumOps == Len(bytecode.opcodes)
OpAt(k) == bytecode.opcodes[k + 1]

\* op_infos[op_byte].get_gas(): the fork's base cost table (CANCUN values)
get_gas(b) ==
    CASE b \in {op_ADD, op_SUB} -> 3
      [] b \in {op_MUL, op_DIV, op_SDIV, op_MOD, op_SMOD} -> 5
      [] b = op_ADDMOD -> 8
      [] b \in {op_LT, op_GT, op_SLT, op_SGT, op_EQ, op_ISZERO} -> 3
      [] b \in {op_AND, op_OR, op_XOR, op_NOT, op_SHL, op_SHR, op_SAR} -> 3
      [] b \in {op_ADDRESS, op_POP, op_PC, op_PUSH0} -> 2
      [] b = op_JUMP -> 8
      [] b = op_JUMPI -> 10
      [] b >= op_PUSH1 /\ b <= op_SWAP16 -> 3
      [] OTHER -> 0

\* opcodes whose match arm is empty (host, memory and unfinished opcodes)
IsStub(b) ==
    \/ b \in 8..11
    \/ b \in {26, 32}
    \/ b \in 48..74
    \/ b \in 81..85
    \/ b \in {89, 90, 92, 93}
    \/ b \in 160..164
    \/ b \in 240..245
    \/ b \in {250, 253, 255}

InBuf(i) == i >= 0 /\ i < STACK_CAP

\* The stack buffer, STACK_CAP words: the contents it had when the function
\* was called (slot i held base[i % 4 + 1]) and the slots that differ from it.
StackRead(st, i) == IF i \in DOMAIN st.w THEN st.w[i] ELSE st.base[(i % 4) + 1]

StackWrite(st, i, v) ==
    [st EXCEPT !.w = [j \in (IF v = st.base[(i % 4) + 1]
                             THEN DOMAIN st.w \ {i}
                             ELSE DOMAIN st.w \cup {i})
                      |-> IF j = i THEN v ELSE st.w[j]]]

\* a load or store through sp at index i
touch(m, i) ==
    [m EXCEPT !.acc = @ \cup {i},
              !.derefs = @ \cup {"sp"},
              !.undef = IF InBuf(i) THEN @ ELSE "oob"]

load_word(m, i, u) == IF InBuf(i) THEN StackRead(m.stack, i) ELSE u

store_word(m, i, v) ==
    IF InBuf(i) THEN [touch(m, i) EXCEPT !.stack = StackWrite(@, i, v)] ELSE touch(m, i)

load_len(m) == m.len

store_len(m, v) == [m EXCEPT !.len = v, !.derefs = @ \cup {"len"}]

sp_at(len) == len

sp_from_top(len, n) == sp_at(len - n)

\* every return gives Stop
build_return_Stop(m, ret) == [m EXCEPT !.ret = "Stop"]

build_return(m, ret) == [m EXCEPT !.ret = ret]

\* if failure_cond { return ret } else { ... }
build_failure(m, failure_cond, ret) ==
    IF failure_cond THEN build_return(m, ret) ELSE m

\* the guard of pushn, popn, dup and swap on the loaded stack length
len_guard(m, failure_cond, ret) ==
    build_failure([m EXCEPT !.derefs = @ \cup {"len"}], failure_cond, ret)

\* gas_cost storing the sum before comparing it with the limit
gas_cost_StoreFirst(m, cost) ==
    IF config.gas_disabled THEN m
    ELSE build_failure([m EXCEPT !.derefs = @ \cup {"gas"},
                                 !.gas_used = (@ + cost) % GasMod],
                       gas_limit < (m.gas_used + cost) % GasMod, "OutOfGas")

gas_cost(m, cost) ==
    IF config.gas_disabled THEN m
    ELSE IF gas_limit < (m.gas_used + cost) % GasMod
    THEN build_failure([m EXCEPT !.derefs = @ \cup {"gas"}], TRUE, "OutOfGas")
    ELSE [m EXCEPT !.derefs = @ \cup {"gas"}, !.gas_used = (@ + cost) % GasMod]

gas_cost_imm(m, cost) ==
    IF config.gas_disabled \/ cost = 0 THEN m ELSE gas_cost(m, cost)

RECURSIVE StoreValues(_, _, _)
StoreValues(m, len, values) ==
    IF values = <<>> THEN m
    ELSE StoreValues(store_word(m, sp_at(len), Head(values)), len + 1, Tail(values))

\* the values stored from the top slot on instead of above it
pushn_unchecked_AtTop(m, values) ==
    store_len(StoreValues(m, load_len(m) - 1, values), load_len(m) + Len(values))

pushn_unchecked(m, values) ==
    store_len(StoreValues(m, load_len(m), values), load_len(m) + Len(values))

push_unchecked(m, value) == pushn_unchecked(m, <<value>>)

\* pushn guarding len > STACK_CAP
pushn_LooseGuard(m, values) ==
    IF UGT(load_len(m), STACK_CAP)
    THEN len_guard(m, TRUE, "StackOverflow")
    ELSE pushn_unchecked(m, values)

pushn(m, values) ==
    IF UGT(load_len(m), STACK_CAP - Len(values))
    THEN len_guard(m, TRUE, "StackOverflow")
    ELSE pushn_unchecked(m, values)

push(m, value) == pushn(m, <<value>>)

RECURSIVE TouchDown(_, _, _)
\* the N loads of popn, from len - 1 downwards
TouchDown(m, len, N) ==
    IF N = 0 THEN m ELSE TouchDown(touch(m, sp_at(len - 1)), len - 1, N - 1)

\* popn storing the new length before its guard
popn_LenFirst(m, N, u) ==
    IF ULT(load_len(m), N)
    THEN len_guard(store_len(m, load_len(m) - N), TRUE, "StackUnderflow")
    ELSE store_len([TouchDown(m, load_len(m), N) EXCEPT
                        !.vals = [i \in 1..N |-> load_word(m, sp_at(load_len(m) - i), u)]],
                   load_len(m) - N)

\* vals[1] is the former top of the stack, vals[2] the word beneath it
popn(m, N, u) ==
    IF ULT(load_len(m), N)
    THEN len_guard(m, TRUE, "StackUnderflow")
    ELSE store_len([TouchDown(m, load_len(m), N) EXCEPT
                        !.vals = [i \in 1..N |-> load_word(m, sp_at(load_len(m) - i), u)]],
                   load_len(m) - N)

pop(m, u) == popn(m, 1, u)

\* DUPn copying the top of the stack whatever n is
dup_Top(m, n, u) ==
    IF ULT(load_len(m), n)
    THEN len_guard(m, TRUE, "StackUnderflow")
    ELSE push(touch(m, sp_from_top(load_len(m), 1)),
              load_word(m, sp_from_top(load_len(m), 1), u))

dup(m, n, u) ==
    IF ULT(load_len(m), n)
    THEN len_guard(m, TRUE, "StackUnderflow")
    ELSE push(touch(m, sp_from_top(load_len(m), n)),
              load_word(m, sp_from_top(load_len(m), n), u))

\* a = b; b = a, with no temporary
swap_words_NoTmp(m, a_sp, b_sp, u) ==
    store_word(store_word(touch(touch(m, a_sp), b_sp), a_sp, load_word(m, b_sp, u)),
               b_sp, load_word(m, b_sp, u))

\* tmp = a; a = b; b = tmp
swap_words(m, a_sp, b_sp, u) ==
    store_word(store_word(touch(touch(m, a_sp), b_sp), a_sp, load_word(m, b_sp, u)),
               b_sp, load_word(m, a_sp, u))

swap(m, n, u) ==
    IF ULT(load_len(m), n)
    THEN len_guard(m, TRUE, "StackUnderflow")
    ELSE swap_words(m, sp_from_top(load_len(m), n + 1), sp_from_top(load_len(m), 1), u)

\* branch_to_next_opcode: br to the next opcode's block when there is one
branch_to_next_opcode(m, opcode) ==
    [m EXCEPT !.next = IF opcode + 1 < NumOps THEN opcode + 1 ELSE NoNext]

\* binop! with the operands taken in the other order: b - a for SUB
BinopValue_Reversed(op_byte, a, b, u) ==
    CASE op_byte = op_ADD -> iadd(b, a)
      [] op_byte = op_MUL -> imul(b, a)
      [] op_byte = op_SUB -> isub(b, a)
      [] op_byte = op_AND -> bitand(b, a)
      [] op_byte = op_OR  -> bitor(b, a)
      [] op_byte = op_XOR -> bitxor(b, a)
      [] op_byte = op_SHL -> IF b >= WordBits THEN u ELSE ishl(a, b)
      [] op_byte = op_SHR -> IF b >= WordBits THEN u ELSE ushr(a, b)
      [] op_byte = op_SAR -> IF b >= WordBits THEN u ELSE sshr(a, b)

\* the builder operation of a binop! arm applied to a (top) and b (beneath);
\* an ishl/ushr/sshr by the width or more has no defined result
BinopValue(op_byte, a, b, u) ==
    CASE op_byte = op_ADD -> iadd(a, b)
      [] op_byte = op_MUL -> imul(a, b)
      [] op_byte = op_SUB -> isub(a, b)
      [] op_byte = op_AND -> bitand(a, b)
      [] op_byte = op_OR  -> bitor(a, b)
      [] op_byte = op_XOR -> bitxor(a, b)
      [] op_byte = op_SHL -> IF b >= WordBits THEN u ELSE ishl(a, b)
      [] op_byte = op_SHR -> IF b >= WordBits THEN u ELSE ushr(a, b)
      [] op_byte = op_SAR -> IF b >= WordBits THEN u ELSE sshr(a, b)

\* the operands popn returned: [a, b]
binop_apply(p, op_byte, u) ==
    IF p.ret # NoRet THEN p
    ELSE push_unchecked(
             [p EXCEPT !.undef = IF op_byte \in {op_SHL, op_SHR, op_SAR}
                                    /\ p.vals[2] >= WordBits
                                 THEN "poison" ELSE @],
             BinopValue(op_byte, p.vals[1], p.vals[2], u))

\* binop!($op)
binop(m, op_byte, u) == binop_apply(popn(m, 2, u), op_byte, u)

\* the signed divide and remainder overflow on I256_MIN by -1, which the
\* backend leaves undefined
DivOverflows(op_byte, a, b) ==
    op_byte \in {op_SDIV, op_SMOD} /\ a = HalfMod /\ b = WordMod - 1

\* the divide or remainder built in the else branch of lazy_select
DivValue(op_byte, a, b, u) ==
    CASE op_byte = op_DIV -> udiv(a, b)
      [] op_byte = op_MOD -> urem(a, b)
      [] op_byte = op_SDIV -> IF DivOverflows(op_byte, a, b) THEN u ELSE sdiv(a, b)
      [] op_byte = op_SMOD -> IF DivOverflows(op_byte, a, b) THEN u ELSE srem(a, b)

\* lazy_select(b == 0, zero, op(a, b))
lazy_select(op_byte, a, b, u) == IF b = 0 THEN 0 ELSE DivValue(op_byte, a, b, u)

if_not_zero_apply(p, op_byte, u) ==
    IF p.ret # NoRet THEN p
    ELSE push_unchecked(
             [p EXCEPT !.undef = IF DivOverflows(op_byte, p.vals[1], p.vals[2])
                                 THEN "overflow" ELSE @],
             lazy_select(op_byte, p.vals[1], p.vals[2], u))

\* binop!(@if_not_zero $op)
binop_if_not_zero(m, op_byte, u) == if_not_zero_apply(popn(m, 2, u), op_byte, u)

\* icmp(cond, a, b) of the LT | GT | SLT | SGT | EQ arm
CmpValue(op_byte, a, b) ==
    CASE op_byte = op_LT -> a < b
      [] op_byte = op_GT -> a > b
      [] op_byte = op_SLT -> ToSigned(a) < ToSigned(b)
      [] op_byte = op_SGT -> ToSigned(a) > ToSigned(b)
      [] op_byte = op_EQ -> a = b

cmp_apply(p, op_byte) ==
    IF p.ret # NoRet THEN p
    ELSE push_unchecked(p, zext(CmpValue(op_byte, p.vals[1], p.vals[2])))

cmpop(m, op_byte, u) == cmp_apply(popn(m, 2, u), op_byte)

iszero_apply(p) ==
    IF p.ret # NoRet THEN p ELSE push_unchecked(p, zext(p.vals[1] = 0))

iszero(m, u) == iszero_apply(pop(m, u))

unop_apply(p) ==
    IF p.ret # NoRet THEN p ELSE push_unchecked(p, bitnot(p.vals[1]))

\* unop!(bitnot)
unop(m, u) == unop_apply(pop(m, u))

\* the two destinations exchanged
brif_Swapped(p, target, next) ==
    IF p.ret # NoRet THEN p
    ELSE [p EXCEPT !.next = IF p.vals[1] # 0 THEN next ELSE target]

\* brif(cond_word != 0, target, next)
brif(p, target, next) ==
    IF p.ret # NoRet THEN p
    ELSE [p EXCEPT !.next = IF p.vals[1] # 0 THEN target ELSE next]

\* the arm testing STATIC_JUMP before INVALID_JUMP
jump_StaticFirst(m, opcode, u) ==
    IF "STATIC_JUMP" \in OpAt(opcode).flags
    THEN IF OpAt(opcode).opcode = op_JUMPI
         THEN brif(pop(m, u), OpAt(opcode).data, opcode + 1)
         ELSE [m EXCEPT !.next = OpAt(opcode).data]
    ELSE IF "INVALID_JUMP" \in OpAt(opcode).flags THEN build_return(m, "InvalidJump")
    ELSE build_return(m, "Untranslated")

\* the JUMP | JUMPI arm; a jump with neither flag is todo!() in the translator
jump(m, opcode, u) ==
    IF "INVALID_JUMP" \in OpAt(opcode).flags THEN build_return(m, "InvalidJump")
    ELSE IF "STATIC_JUMP" \in OpAt(opcode).flags
    THEN IF OpAt(opcode).opcode = op_JUMPI
         THEN brif(pop(m, u), OpAt(opcode).data, opcode + 1)
         ELSE [m EXCEPT !.next = OpAt(opcode).data]
    ELSE build_return(m, "Untranslated")

\* opcodes that have a match arm of their own in translate_opcode
IsLowered(b) ==
    \/ b <= op_SMOD
    \/ b \in op_LT..op_NOT
    \/ b \in op_SHL..op_SAR
    \/ b \in {op_POP, op_JUMP, op_JUMPI, op_PC, op_JUMPDEST, op_INVALID}
    \/ b \in op_PUSH0..op_SWAP16
    \/ IsStub(b)

\* the match of translate_opcode, followed by goto_return!("normal exit")
lower(m, opcode, data, u) ==
    CASE data.opcode = op_STOP -> build_return(m, "Stop")
      [] data.opcode \in {op_ADD, op_MUL, op_SUB, op_AND, op_OR, op_XOR,
                          op_SHL, op_SHR, op_SAR} ->
             branch_to_next_opcode(binop(m, data.opcode, u), opcode)
      [] data.opcode \in {op_DIV, op_SDIV, op_MOD, op_SMOD} ->
             branch_to_next_opcode(binop_if_not_zero(m, data.opcode, u), opcode)
      [] data.opcode \in {op_LT, op_GT, op_SLT, op_SGT, op_EQ} ->
             branch_to_next_opcode(cmpop(m, data.opcode, u), opcode)
      [] data.opcode = op_ISZERO -> branch_to_next_opcode(iszero(m, u), opcode)
      [] data.opcode = op_NOT -> branch_to_next_opcode(unop(m, u), opcode)
      [] data.opcode = op_POP -> branch_to_next_opcode(pop(m, u), opcode)
      [] data.opcode \in {op_JUMP, op_JUMPI} -> jump(m, opcode, u)
      [] data.opcode = op_PC -> branch_to_next_opcode(push(m, Wrap(data.data)), opcode)
      [] data.opcode = op_JUMPDEST -> branch_to_next_opcode(m, opcode)
      [] data.opcode = op_PUSH0 -> branch_to_next_opcode(push(m, 0), opcode)
      [] IsPush(data.opcode) ->
             branch_to_next_opcode(
                 push(m, from_be_slice(get_imm_of(bytecode.raw, data))), opcode)
      [] data.opcode >= op_DUP1 /\ data.opcode <= op_DUP16 ->
             branch_to_next_opcode(dup(m, data.opcode - op_DUP1 + 1, u), opcode)
      [] data.opcode >= op_SWAP1 /\ data.opcode <= op_SWAP16 ->
             branch_to_next_opcode(swap(m, data.opcode - op_SWAP1 + 1, u), opcode)
      [] data.opcode = op_INVALID -> build_return(m, "InvalidFEOpcode")
      [] IsStub(data.opcode) -> branch_to_next_opcode(m, opcode)
      [] OTHER -> build_return(m, "OpcodeNotFound")

\* the table's cost for every opcode, JUMPDEST included
OpcodeGas_TableOnly(op_byte) == get_gas(op_byte)

\* every opcode charged the cost of an ADD
OpcodeGas_Flat(op_byte) == get_gas(op_ADD)

\* the cost translate_opcode passes to gas_cost_imm
OpcodeGas(op_byte) == IF op_byte = op_JUMPDEST THEN 1 ELSE get_gas(op_byte)

\* the match reached whatever the flags say
after_gas_NoSkip(g, opcode, data, u) ==
    IF g.ret # NoRet THEN g ELSE lower(g, opcode, data, u)

\* translate_opcode after the gas deduction g: SKIP_LOGIC, then the match
after_gas(g, opcode, data, u) ==
    IF g.ret # NoRet THEN g
    ELSE IF "SKIP_LOGIC" \in data.flags THEN branch_to_next_opcode(g, opcode)
    ELSE lower(g, opcode, data, u)

\* the gas deduction translate_opcode emits first
charge(m, data) ==
    IF ~config.gas_disabled /\ "SKIP_GAS" \notin data.flags
    THEN gas_cost_imm(m, OpcodeGas(data.opcode))
    ELSE m

\* translate_opcode: the block emitted for the opcode with index opcode
translate_opcode(m, opcode, u) ==
    IF "DISABLED" \in OpAt(opcode).flags THEN build_return(m, "NotActivated")
    ELSE after_gas(charge(m, OpAt(opcode)), opcode, OpAt(opcode), u)

-----------------------------------------------------------------------------
\* What the translator does with a bytecode at compile time

\* the debug assertion looking one opcode past the target
target_is_jumpdest_OffByOne(ops, d) ==
    /\ d.data + 1 \in 0..(Len(ops) - 1)
    /\ ops[d.data + 2].opcode = op_JUMPDEST

\* debug_assert_eq!(self.bytecode.opcodes[target_opcode].opcode, op::JUMPDEST)
\* of a static jump d: the index is in range and the opcode there a JUMPDEST
target_is_jumpdest(ops, d) ==
    /\ d.data \in 0..(Len(ops) - 1)
    /\ ops[d.data + 1].opcode = op_JUMPDEST

\* the opcode whose translation aborts the compiler, if any:
\*   todo!("dynamic jumps") for a JUMP/JUMPI with neither jump flag,
\*   the debug assertion on the target of a static jump,
\*   the index self.op_blocks[opcode + 1] of a static JUMPI that is last
TranslateAbort(ops, k) ==
    LET d == ops[k + 1]
    IN IF "DISABLED" \in d.flags \/ "SKIP_LOGIC" \in d.flags THEN "none"
       ELSE IF d.opcode \notin {op_JUMP, op_JUMPI} THEN "none"
       ELSE IF "INVALID_JUMP" \in d.flags THEN "none"
       ELSE IF "STATIC_JUMP" \notin d.flags THEN "todo"
       ELSE IF ~target_is_jumpdest(ops, d) THEN "assert"
       ELSE IF d.opcode = op_JUMPI /\ k + 1 >= Len(ops) THEN "index"
       ELSE "none"

\* assert!(!op_blocks.is_empty(), "translating empty bytecode"), and every
\* opcode translated without an abort
Translates(ops) ==
    /\ ops # <<>>
    /\ \A k \in 0..(Len(ops) - 1) : TranslateAbort(ops, k) = "none"

\* whether the last block emitted for opcode k ends in a terminator: a br to
\* the next opcode's block, or the ret / br / brif of a diverging arm
HasTerminator(ops, k) ==
    LET d == ops[k + 1]
    IN \/ k + 1 < Len(ops)
       \/ "DISABLED" \in d.flags
       \/ /\ "SKIP_LOGIC" \notin d.flags
          /\ \/ d.opcode \in {op_STOP, op_INVALID, op_JUMP, op_JUMPI}
             \/ ~IsLowered(d.opcode)

WellFormedIR(ops) == \A k \in 0..(Len(ops) - 1) : HasTerminator(ops, k)

\* the must_be_set argument of the gas pointer's guard under configuration c
gas_ptr_must_be_set(c) ==
    ~c.gas_disabled \/ c.store_gas_used \/ c.static_gas_limit = <<>>

\* what the entry block is built from under configuration c
EntryEmitted(c) ==
    [guards |-> c.debug_assertions,
     gas_must_be_set |-> gas_ptr_must_be_set(c),
     gas_used_in_struct |-> c.store_gas_used,
     gas_limit |-> c.static_gas_limit,
     sp_is_arg |-> c.stack_through_args,
     len_is_arg |-> c.pass_stack_len_through_args]

\* the gas constant numbered after the function being built
Emitted_PerName(raw, c, d) ==
    [ret |-> IF "DISABLED" \in d.flags THEN "NotActivated" ELSE "none",
     gas |-> function_counter,
     arm |-> IF "DISABLED" \in d.flags \/ "SKIP_LOGIC" \in d.flags THEN -1 ELSE d.opcode,
     flags |-> d.flags,
     value |-> IF IsPush(d.opcode) THEN from_be_slice(get_imm_of(raw, d)) ELSE d.data]

\* what translate_opcode builds the block of opcode d from: the early
\* return of a DISABLED opcode, the constant of the gas deduction, the match
\* arm taken (none for DISABLED and SKIP_LOGIC), the flags and the constant
\* the arm uses (the immediate of a PUSH, data otherwise)
Emitted(raw, c, d) ==
    [ret |-> IF "DISABLED" \in d.flags THEN "NotActivated" ELSE "none",
     gas |-> IF "DISABLED" \in d.flags \/ c.gas_disabled \/ "SKIP_GAS" \in d.flags
             THEN 0 ELSE OpcodeGas(d.opcode),
     arm |-> IF "DISABLED" \in d.flags \/ "SKIP_LOGIC" \in d.flags THEN -1 ELSE d.opcode,
     flags |-> d.flags,
     value |-> IF IsPush(d.opcode) THEN from_be_slice(get_imm_of(raw, d)) ELSE d.data]

\* the builder operations FunctionCx::translate emits for bytecode bc under
\* configuration c, the function's name left out
IrOf(bc, c) ==
    [entry |-> EntryEmitted(c),
     blocks |-> [k \in DOMAIN bc.opcodes |-> Emitted(bc.raw, c, bc.opcodes[k])]]

-----------------------------------------------------------------------------
\* The inputs of the model

\* Cap on the opcodes one invocation executes.
MaxSteps == 64
MaxFibSteps == 2000
FibGasLimit == 10000

\* The static gas limit the model configures.
StaticLimit == 6

DefaultConfig ==
    [debug_assertions |-> FALSE,
     comments_enabled |-> FALSE,
     stack_through_args |-> FALSE,
     pass_stack_len_through_args |-> FALSE,
     gas_disabled |-> FALSE,
     store_gas_used |-> TRUE,
     static_gas_limit |-> <<>>]

\* the configuration of run_test_group and run_fibonacci
TestConfig ==
    [DefaultConfig EXCEPT !.stack_through_args = TRUE,
                          !.pass_stack_len_through_args = TRUE]

RunConfigs ==
    [debug_assertions : BOOLEAN,
     comments_enabled : {FALSE},
     stack_through_args : BOOLEAN,
     pass_stack_len_through_args : BOOLEAN,
     gas_disabled : BOOLEAN,
     store_gas_used : BOOLEAN,
     static_gas_limit : {<<>>, <<StaticLimit>>}]

\* the test programs of the source (RETURN_CASES, CF_CASES)
TestPrograms ==
    { <<>>,
      <<op_PUSH0>>,
      <<op_STOP>>,
      <<op_INVALID>>,
      <<op_UNKNOWN21>>,
      <<op_ADD>>,
      <<op_PUSH0, op_ADD>>,
      <<op_PUSH1, 3, op_JUMP, op_JUMPDEST>>,
      <<op_PUSH1, 3, op_JUMP, op_JUMPDEST, op_PUSH0, op_ADD>>,
      <<op_PUSH1, 1, op_PUSH1, 5, op_JUMPI, op_JUMPDEST>>,
      <<op_PUSH1, 1, op_PUSH1, 5, op_JUMPI, op_JUMPDEST, op_PUSH0, op_ADD>>,
      <<op_PUSH1, 3, op_JUMPDEST, op_PUSH1, 1, op_SWAP1, op_SUB, op_DUP1,
        op_PUSH1, 2, op_JUMPI, op_POP, op_PUSH1, 69>> }

\* one opcode on the caller's stack, followed by STOP
SingleOps ==
    {op_ADD, op_MUL, op_SUB, op_DIV, op_SDIV, op_MOD, op_SMOD,
     op_LT, op_SGT, op_EQ, op_ISZERO, op_AND, op_OR, op_XOR, op_NOT,
     op_SHL, op_SHR, op_SAR, op_ADDRESS, op_POP, op_PC, op_JUMPDEST, op_PUSH0,
     op_DUP1, op_DUP2, op_SWAP1, op_SWAP2, op_INVALID, op_UNKNOWN21}

OtherPrograms ==
    { <<op_PUSH1, 0, op_JUMP>>,                       \* jump to a non-JUMPDEST
      <<op_PUSH1, 9, op_JUMPI, op_STOP>>,             \* the same, conditional
      <<op_PUSH1, 7, op_POP, op_STOP>>,
      <<op_PUSH2, 1, 255, op_POP, op_STOP>>,
      <<op_PUSH2, 1, 2, op_STOP>>,
      <<op_PUSH2, 1>>,                                \* an immediate cut short
      <<op_JUMPDEST, op_PUSH1, 0, op_JUMPI, op_STOP>>, \* backward conditional jump
      <<op_JUMP>>,                                    \* a dynamic jump
      <<op_JUMPDEST, op_PUSH1, 0, op_JUMPI>> }        \* a static JUMPI that is last

\* tests::FIBONACCI_CODE
FIBONACCI_CODE ==
    << op_PUSH1, 0,
       op_PUSH1, 1,
       \* MAINLOOP (7):
       op_JUMPDEST,
       op_DUP3,
       op_ISZERO,
       op_PUSH1, 28,
       op_JUMPI,
       \* fib step
       op_DUP2,
       op_DUP2,
       op_ADD,
       op_SWAP2,
       op_POP,
       op_SWAP1,
       \* decrement the step counter
       op_SWAP2,
       op_PUSH1, 1,
       op_SWAP1,
       op_SUB,
       op_SWAP2,
       op_PUSH1, 7,
       op_JUMP,
       \* CLEANUP (28):
       op_JUMPDEST,
       op_SWAP2,
       op_POP,
       op_POP,
       op_STOP >>

\* tests::mk_fibonacci_code; input.to_be_bytes() is the two bytes of a u16
mk_fibonacci_code(input, dynamic) ==
    IF dynamic THEN <<op_JUMPDEST, op_JUMPDEST, op_JUMPDEST>> \o FIBONACCI_CODE
    ELSE <<op_PUSH2, input \div 256, input % 256>> \o FIBONACCI_CODE

\* the inputs of run_fibonacci_tests
FibInputs == (0..10) \cup {100}

FibonacciPrograms == {mk_fibonacci_code(n, dyn) : n \in FibInputs, dyn \in BOOLEAN}

RECURSIVE fibonacci_loop(_, _, _)
fibonacci_loop(k, a, b) == IF k = 0 THEN a ELSE fibonacci_loop(k - 1, b, Wrap(b + a))

\* tests::fibonacci_rust: a after n rounds of (a, b) = (b, b.wrapping_add(a))
fibonacci_rust(n) == fibonacci_loop(n, 0, 1)

Programs == TestPrograms \cup {<<o, op_STOP>> : o \in SingleOps} \cup OtherPrograms

SmallPrograms ==
    { <<>>, <<op_PUSH0>>, <<op_PUSH0, op_ADD>>, <<op_SWAP1, op_STOP>>,
      <<op_PUSH1, 3, op_JUMP, op_JUMPDEST>> }

\* initial stack lengths and contents (slot i holds pattern[i % 4 + 1])
Lens == {0, 1, 2, 3, STACK_CAP - 1, STACK_CAP}
Patterns ==
    { <<2, 1, 0, 5>>,
      <<WordMod - 1, HalfMod, WordMod - 1, 1>>,
      <<3, WordMod - 2, WordBits, 4>> }
StackOf(pattern) == [base |-> pattern, w |-> <<>>]

\* <<gas limit, gas used>> of the caller's gas struct
GasInputs ==
    { <<100, 0>>, <<4, 0>>, <<10, 7>>, <<GasMod - 1, 0>>, <<GasMod - 1, GasMod - 2>> }

\* the pointer arguments a configuration requires
WellFormedArgs(c) ==
    [gas_null |-> c.gas_disabled /\ ~c.store_gas_used /\ c.static_gas_limit # <<>>,
     sp_null |-> ~c.stack_through_args,
     len_null |-> ~c.pass_stack_len_through_args]

AllArgs == [gas_null : BOOLEAN, sp_null : BOOLEAN, len_null : BOOLEAN]

NoHist ==
    [opcode |-> -1, len |-> 0, gas_used |-> 0, stack |-> <<>>, acc |-> {},
     derefs |-> {}, undef |-> "none", cost_sum |-> 0, used0 |-> 0, limit0 |-> 0,
     steps |-> 0]

\* nothing compiled yet: calls is the number of compile calls made, names the
\* names new_name has returned (k of __evm_bytecode_{k}, with the index of the
\* compile call that asked), dumps the paths the current compile call wrote,
\* prev the bytecode last translated under the configuration as it is now,
\* with what was emitted for it and whether the translation before it, under
\* the same configuration, was of the same bytecode
NoLog == [calls |-> 0, names |-> <<>>, dumps |-> <<>>, prev |-> <<>>]

-----------------------------------------------------------------------------
\* One invocation of the emitted function: f.call(gas, stack, stack_len)

CompiledBackend == [is_dumping |-> FALSE, opt_level |-> "None", debug_assertions |-> FALSE]

\* a compiled function about to be called
CallFrom(c, a, raw, fork, len0, pattern, gas, steps0) ==
    /\ out_dir = "None"
    /\ config = c
    /\ function_counter = 1
    /\ backend = CompiledBackend
    /\ stage = "called"
    /\ trace = <<>>
    /\ outcome = "Ok"
    /\ log = [NoLog EXCEPT !.calls = 1, !.names = <<[call |-> 0, k |-> 0]>>]
    /\ bytecode = Analyze(raw, fork)
    /\ Translates(bytecode.opcodes)
    /\ args = a
    /\ gas_limit = gas[1]
    /\ gas_used = gas[2]
    /\ stack = StackOf(pattern)
    /\ stack_len = len0
    /\ pc = -1
    /\ result = NoRet
    /\ hist = [NoHist EXCEPT !.used0 = gas[2], !.limit0 = gas[1], !.len = len0,
                             !.steps = steps0]

\* a call whose opcodes are counted from 0
CallState(c, a, raw, fork, len0, pattern, gas) ==
    CallFrom(c, a, raw, fork, len0, pattern, gas, 0)

Init ==
    \/ \E raw \in Programs, len0 \in Lens, pattern \in Patterns, gas \in GasInputs :
          CallState(TestConfig, WellFormedArgs(TestConfig), raw, "CANCUN",
                    len0, pattern, gas)
    \/ \E raw \in SmallPrograms, len0 \in {0, STACK_CAP}, gas \in GasInputs :
          CallState(TestConfig, WellFormedArgs(TestConfig), raw, "LONDON",
                    len0, <<2, 1, 0, 5>>, gas)
    \/ \E c \in RunConfigs, raw \in SmallPrograms, len0 \in {0, 2},
          gas \in {<<100, 0>>, <<4, 0>>} :
          CallState(c, WellFormedArgs(c), raw, "CANCUN", len0, <<2, 1, 0, 5>>, gas)
    \/ \E c \in RunConfigs, a \in AllArgs, raw \in {<<op_STOP>>, <<op_PUSH0, op_ADD>>} :
          CallState(c, a, raw, "CANCUN", 0, <<2, 1, 0, 5>>, <<100, 0>>)

\* the pointer arguments that are null although the function uses them
NullUsed ==
    (IF args.gas_null THEN {"gas"} ELSE {})
    \cup (IF args.sp_null /\ config.stack_through_args THEN {"sp"} ELSE {})
    \cup (IF args.len_null /\ config.pass_stack_len_through_args THEN {"len"} ELSE {})

\* the guard emitted only for a pointer that must be set
PointerPanics_OnlyNull(must_be_set, is_null) == must_be_set /\ is_null

\* pointer_panic_with_bool: the emitted guard calls the panic hook
PointerPanics(must_be_set, is_null) == IF must_be_set THEN is_null ELSE ~is_null

GasMustBeSet == gas_ptr_must_be_set(config)

\* the entry block emits bcx.load(isize_type, gas_ptr, "gas_limit")
loads_gas_limit(c) == c.static_gas_limit = <<>>

\* how the entry block ends under configuration c when called with the
\* pointers a: the gas pointer's guard comes before the load of the limit,
\* the other two guards after it
EntryOf(c, a) ==
    IF c.debug_assertions /\ PointerPanics(gas_ptr_must_be_set(c), a.gas_null)
    THEN "Panic"
    ELSE IF loads_gas_limit(c) /\ a.gas_null THEN "Trap"
    ELSE IF c.debug_assertions
            /\ \/ PointerPanics(c.stack_through_args, a.sp_null)
               \/ PointerPanics(c.pass_stack_len_through_args, a.len_null)
    THEN "Panic"
    ELSE NoRet

\* the entry block with the gas limit always loaded from the gas struct
Prologue_LoadsLimit ==
    /\ pc = -1 /\ result = NoRet
    /\ result' = EntryOf(config, args)
    /\ pc' = IF EntryOf(config, args) = NoRet THEN 0 ELSE pc
    /\ gas_limit' = gas_limit
    /\ gas_used' = IF config.store_gas_used THEN gas_used ELSE 0
    /\ stack_len' = IF config.pass_stack_len_through_args THEN stack_len ELSE 0
    /\ hist' = [hist EXCEPT !.used0 = gas_used', !.len = stack_len']
    /\ UNCHANGED <<jit_vars, bytecode, args, stack>>

\* the entry block: pointer guards, the gas limit, the local cells
Prologue ==
    /\ pc = -1 /\ result = NoRet
    /\ result' = EntryOf(config, args)
    /\ pc' = IF EntryOf(config, args) = NoRet THEN 0 ELSE pc
    /\ gas_limit' = IF config.static_gas_limit # <<>>
                    THEN config.static_gas_limit[1] % GasMod
                    ELSE gas_limit
    /\ gas_used' = IF config.store_gas_used THEN gas_used ELSE 0
    /\ stack_len' = IF config.pass_stack_len_through_args THEN stack_len ELSE 0
    /\ hist' = [hist EXCEPT !.used0 = gas_used', !.len = stack_len']
    /\ UNCHANGED <<jit_vars, bytecode, args, stack>>

Machine ==
    [len |-> stack_len, stack |-> stack, gas_used |-> gas_used, ret |-> NoRet,
     next |-> NoNext, vals |-> <<>>, acc |-> {}, derefs |-> {}, undef |-> "none"]

\* the ways the block of opcode k can end, d being its end when every
\* operation in it is defined: otherwise any value for the undefined read or
\* result, or a trap when memory outside the buffer or behind a null pointer
\* was touched
\* (a store outside the buffer that does not trap lands in memory the model
\* does not hold: it changes none of the cells)
OutcomesOf(d, k) ==
    IF d.derefs \cap NullUsed # {}
    THEN {[Machine EXCEPT !.ret = "Trap", !.acc = d.acc, !.derefs = d.derefs,
                          !.undef = "null"]}
    ELSE IF d.undef = "none" THEN {d}
    ELSE {translate_opcode(Machine, k, u) : u \in Word}
         \cup (IF d.undef = "poison" THEN {}
               ELSE {[Machine EXCEPT !.ret = "Trap", !.acc = d.acc,
                                     !.derefs = d.derefs, !.undef = d.undef]})

Outcomes(k) == OutcomesOf(translate_opcode(Machine, k, 0), k)

\* the opcodes one call may execute: the Fibonacci runs go to their end.  A
\* call started with a negative count (specification SpecGas) keeps no count
\* and no running total of the costs, and is never cut short: a function that
\* loops for ever is then a cycle of states
StepBound == IF bytecode.raw \in FibonacciPrograms THEN MaxFibSteps ELSE MaxSteps

\* control is in the block of opcode pc; run it to its terminator
Exec(arm) ==
    /\ result = NoRet /\ pc >= 0 /\ pc < NumOps
    /\ hist.steps < StepBound
    /\ arm
    /\ \E o \in Outcomes(pc) :
          /\ stack' = o.stack
          /\ stack_len' = o.len
          /\ gas_used' = o.gas_used
          /\ result' = o.ret
          /\ pc' = IF o.ret # NoRet THEN pc
                   ELSE IF o.next = NoNext THEN NumOps ELSE o.next
          /\ hist' = [opcode |-> pc, len |-> stack_len, gas_used |-> gas_used,
                      stack |-> stack, acc |-> o.acc, derefs |-> o.derefs,
                      undef |-> o.undef,
                      cost_sum |-> IF hist.steps < 0 THEN 0
                                   ELSE hist.cost_sum
                                        + (IF OpAt(pc).opcode = op_JUMPDEST THEN 1
                                           ELSE get_gas(OpAt(pc).opcode)),
                      used0 |-> hist.used0, limit0 |-> hist.limit0,
                      steps |-> IF hist.steps < 0 THEN hist.steps
                                ELSE hist.steps + 1]
    /\ UNCHANGED <<jit_vars, bytecode, args, gas_limit>>

Cur == OpAt(pc)
Plain == "DISABLED" \notin Cur.flags /\ "SKIP_LOGIC" \notin Cur.flags

ExecDisabled == Exec("DISABLED" \in Cur.flags)
ExecSkipped == Exec("DISABLED" \notin Cur.flags /\ "SKIP_LOGIC" \in Cur.flags)
ExecStop == Exec(Plain /\ Cur.opcode = op_STOP)
ExecBinop ==
    Exec(Plain /\ Cur.opcode \in {op_ADD, op_MUL, op_SUB, op_AND, op_OR, op_XOR,
                                  op_SHL, op_SHR, op_SAR})
ExecDivRem == Exec(Plain /\ Cur.opcode \in {op_DIV, op_SDIV, op_MOD, op_SMOD})
ExecCmp == Exec(Plain /\ Cur.opcode \in {op_LT, op_GT, op_SLT, op_SGT, op_EQ, op_ISZERO})
ExecNot == Exec(Plain /\ Cur.opcode = op_NOT)
ExecPop == Exec(Plain /\ Cur.opcode = op_POP)
ExecJump == Exec(Plain /\ Cur.opcode \in {op_JUMP, op_JUMPI})
ExecPc == Exec(Plain /\ Cur.opcode = op_PC)
ExecJumpdest == Exec(Plain /\ Cur.opcode = op_JUMPDEST)
ExecPush == Exec(Plain /\ Cur.opcode \in op_PUSH0..op_PUSH32)
ExecDup == Exec(Plain /\ Cur.opcode \in op_DUP1..op_DUP16)
ExecSwap == Exec(Plain /\ Cur.opcode \in op_SWAP1..op_SWAP16)
ExecInvalid == Exec(Plain /\ Cur.opcode = op_INVALID)
ExecStub == Exec(Plain /\ IsStub(Cur.opcode))
ExecUnknown == Exec(Plain /\ ~IsLowered(Cur.opcode))

\* control left the last opcode's block, which has no terminator: what
\* runs next is whatever follows the function, so the call may end in any way
RunPastEnd ==
    /\ result = NoRet /\ pc = NumOps
    /\ result' \in ReturnCodes \cup {"Trap"}
    /\ UNCHANGED <<jit_vars, bytecode, args, gas_limit, gas_used, stack, stack_len, pc, hist>>

Next ==
    \/ Prologue
    \/ ExecDisabled \/ ExecSkipped \/ ExecStop \/ ExecBinop \/ ExecDivRem
    \/ ExecCmp \/ ExecNot \/ ExecPop \/ ExecJump \/ ExecPc \/ ExecJumpdest
    \/ ExecPush \/ ExecDup \/ ExecSwap \/ ExecInvalid \/ ExecStub \/ ExecUnknown
    \/ RunPastEnd

Spec == Init /\ [][Next]_vars

\* tests::run_fibonacci: the function compiled from mk_fibonacci_code(input,
\* dynamic) is called with Gas::new(10000) and, when dynamic, with the input
\* as the only stack element
InitFib ==
    \E input \in FibInputs, dynamic \in BOOLEAN :
        CallState(TestConfig, WellFormedArgs(TestConfig),
                  mk_fibonacci_code(input, dynamic), "CANCUN",
                  IF dynamic THEN 1 ELSE 0,
                  <<IF dynamic THEN input ELSE 0, 0, 0, 0>>,
                  <<FibGasLimit, 0>>)

\* the blocks a Fibonacci program is made of
NextFib ==
    \/ Prologue
    \/ ExecSkipped \/ ExecStop \/ ExecBinop \/ ExecCmp \/ ExecPop \/ ExecJump
    \/ ExecJumpdest \/ ExecPush \/ ExecDup \/ ExecSwap

SpecFib == InitFib /\ [][NextFib]_vars

\* programs with a cycle in their control flow, and two without
LoopPrograms ==
    { <<op_JUMPDEST, op_PUSH1, 0, op_JUMP>>,
      <<op_JUMPDEST, op_PUSH1, 0, op_JUMPI, op_STOP>>,
      <<op_PUSH1, 3, op_JUMPDEST, op_PUSH1, 1, op_SWAP1, op_SUB, op_DUP1,
        op_PUSH1, 2, op_JUMPI, op_POP, op_PUSH1, 69, op_STOP>>,
      <<op_PUSH1, 3, op_JUMP, op_JUMPDEST, op_STOP>>,
      <<op_STOP>> }

\* calls with gas accounting enabled, followed without a bound on their length
InitGas ==
    \E c \in {TestConfig, [TestConfig EXCEPT !.static_gas_limit = <<StaticLimit>>]},
       raw \in LoopPrograms, len0 \in {0, 2},
       gas \in {<<100, 0>>, <<4, 0>>, <<GasMod - 1, GasMod - 2>>} :
        CallFrom(c, WellFormedArgs(c), raw, "CANCUN", len0, <<2, 1, 0, 5>>, gas, -1)

NextGas ==
    \/ Prologue
    \/ ExecSkipped \/ ExecStop \/ ExecBinop \/ ExecPop \/ ExecJump \/ ExecJumpdest
    \/ ExecPush \/ ExecDup \/ ExecSwap

\* the processor goes on executing the function until it returns
SpecGas == InitGas /\ [][NextGas]_vars /\ WF_vars(NextGas)

-----------------------------------------------------------------------------
\* The JitEvm driver: configuration setters and the compile pipeline.
\* compile() runs to completion before the caller can do anything else; stage
\* is the pipeline step that comes next.  Every call into the backend (and the
\* analyzer) returns a Result, whose Err ends the call.

\* the directory given to set_dump_to (out_dir = "Some")
DumpDir == <<"D">>

NoBytecode == [spec |-> "CANCUN", raw |-> <<>>, opcodes |-> <<>>]

NoCall ==
    /\ args = [gas_null |-> TRUE, sp_null |-> TRUE, len_null |-> TRUE]
    /\ gas_limit = 0
    /\ gas_used = 0
    /\ stack = StackOf(<<0, 0, 0, 0>>)
    /\ stack_len = 0
    /\ pc = -1
    /\ result = "NotCalled"
    /\ hist = NoHist

\* the bytecodes given to compile
JitPrograms ==
    { <<>>,
      <<op_PUSH0>>,
      <<op_PUSH1, 3, op_JUMP, op_JUMPDEST, op_STOP>>,
      <<op_JUMP>>,
      <<op_PUSH0, op_JUMPI>>,
      <<op_JUMPDEST, op_PUSH1, 0, op_JUMPI>> }

\* JitEvm::new
InitJit ==
    /\ out_dir = "None"
    /\ \E dbg \in BOOLEAN :
          /\ config = [DefaultConfig EXCEPT !.debug_assertions = dbg]
          /\ backend = [is_dumping |-> FALSE, opt_level |-> "None", debug_assertions |-> dbg]
    /\ function_counter = 0
    /\ stage = "idle"
    /\ trace = <<>>
    /\ outcome = "None"
    /\ log = NoLog
    /\ bytecode = NoBytecode
    /\ NoCall

Idle == stage = "idle"

\* a setter has written config: prev holds translations under config only
ConfigChanged ==
    log' = IF config' = config THEN log ELSE [log EXCEPT !.prev = <<>>]

\* set_dump_to leaving the translator's configuration as it was
set_dump_to_KeepsComments(output_dir) ==
    /\ Idle
    /\ backend' = [backend EXCEPT !.is_dumping = (output_dir = "Some")]
    /\ config' = config
    /\ out_dir' = output_dir
    /\ ConfigChanged
    /\ UNCHANGED <<function_counter, stage, trace, outcome, bytecode, call_vars>>

set_dump_to(output_dir) ==
    /\ Idle
    /\ backend' = [backend EXCEPT !.is_dumping = (output_dir = "Some")]
    /\ config' = [config EXCEPT !.comments_enabled = (output_dir = "Some")]
    /\ out_dir' = output_dir
    /\ ConfigChanged
    /\ UNCHANGED <<function_counter, stage, trace, outcome, bytecode, call_vars>>

set_opt_level(level) ==
    /\ Idle
    /\ backend' = [backend EXCEPT !.opt_level = level]
    /\ UNCHANGED <<out_dir, config, function_counter, stage, trace, outcome,
                   bytecode, call_vars, log>>

set_debug_assertions(yes) ==
    /\ Idle
    /\ backend' = [backend EXCEPT !.debug_assertions = yes]
    /\ config' = [config EXCEPT !.debug_assertions = yes]
    /\ ConfigChanged
    /\ UNCHANGED <<out_dir, function_counter, stage, trace, outcome, bytecode, call_vars>>

SetConfig(c) ==
    /\ Idle
    /\ config' = c
    /\ ConfigChanged
    /\ UNCHANGED <<out_dir, function_counter, backend, stage, trace, outcome,
                   bytecode, call_vars>>

set_pass_stack_through_args(yes) ==
    SetConfig([config EXCEPT !.stack_through_args = yes])

set_pass_stack_len_through_args(yes) ==
    SetConfig([config EXCEPT !.pass_stack_len_through_args = yes])

set_disable_gas(disable_gas) ==
    SetConfig([config EXCEPT !.gas_disabled = disable_gas])

set_store_gas_used(yes) ==
    SetConfig([config EXCEPT !.store_gas_used = yes])

set_static_gas_limit(static_gas_limit) ==
    SetConfig([config EXCEPT !.static_gas_limit = static_gas_limit])

free_all_functions ==
    /\ Idle
    /\ UNCHANGED vars

\* a pipeline step whose error is recorded while the pipeline goes on
Step_Continues(call, ok, next) ==
    /\ trace' = Append(trace, call)
    /\ stage' = next
    /\ outcome' = IF ok THEN outcome ELSE "Err"

\* a pipeline step: the call made, and where the pipeline goes next
Step(call, ok, next) ==
    /\ trace' = Append(trace, call)
    /\ stage' = IF ok THEN next ELSE "returned"
    /\ outcome' = IF ok THEN outcome ELSE "Err"

\* compile(bytecode, spec) is called
compile(raw, spec) ==
    /\ Idle
    /\ function_counter < MaxCompiles
    /\ log.calls < MaxCalls
    /\ bytecode' = [spec |-> spec, raw |-> raw, opcodes |-> <<>>]
    /\ stage' = "parse"
    /\ trace' = <<>>
    /\ outcome' = "None"
    /\ log' = [log EXCEPT !.calls = @ + 1, !.dumps = <<>>]
    /\ UNCHANGED <<out_dir, config, function_counter, backend, call_vars>>

\* parse_bytecode: Bytecode::new and analyze()?
parse_bytecode(ok) ==
    /\ stage = "parse"
    /\ Step("parse", ok, "build")
    /\ bytecode' = IF ok THEN Analyze(bytecode.raw, bytecode.spec) ELSE bytecode
    /\ UNCHANGED <<out_dir, config, function_counter, backend, call_vars, log>>

\* the name numbered by the compile call it is allocated in
new_name_CallIndex == log.calls - 1

\* new_name: the k of format!("__evm_bytecode_{}", self.function_counter)
new_name == function_counter

\* compile_bytecode up to build_function(name)?
build_function(ok) ==
    /\ stage = "build"
    /\ trace' = (IF config.debug_assertions
                 THEN Append(trace, "add_callback_function") ELSE trace)
                \o <<"build_function">>
    /\ function_counter' = function_counter + 1
    /\ log' = [log EXCEPT !.names = Append(@, [call |-> log.calls - 1, k |-> new_name])]
    /\ stage' = IF ok THEN "translate" ELSE "returned"
    /\ outcome' = IF ok THEN outcome ELSE "Err"
    /\ UNCHANGED <<out_dir, config, backend, bytecode, call_vars>>

\* translate followed by verification whether or not a dump directory is set
translate_ThenVerify ==
    /\ stage = "translate"
    /\ trace' = Append(trace, "translate")
    /\ IF Translates(bytecode.opcodes)
       THEN stage' = "verify" /\ outcome' = outcome
       ELSE stage' = "aborted" /\ outcome' = "Panic"
    /\ log' = IF Translates(bytecode.opcodes)
              THEN [log EXCEPT !.prev = <<[raw |-> bytecode.raw,
                                           ir |-> IrOf(bytecode, config),
                                           again |-> log.prev # <<>>
                                                     /\ log.prev[1].raw = bytecode.raw]>>]
              ELSE log
    /\ UNCHANGED <<out_dir, config, function_counter, backend, bytecode, call_vars>>

\* FunctionCx::translate(bcx, bytecode, &self.config)?: the translator
\* returns Ok, or panics on an opcode it cannot translate
translate ==
    /\ stage = "translate"
    /\ trace' = Append(trace, "translate")
    /\ IF Translates(bytecode.opcodes)
       THEN /\ stage' = IF out_dir = "Some" THEN "dump_unopt_ir" ELSE "verify"
            /\ outcome' = outcome
       ELSE /\ stage' = "aborted"
            /\ outcome' = "Panic"
    /\ log' = IF Translates(bytecode.opcodes)
              THEN [log EXCEPT !.prev = <<[raw |-> bytecode.raw,
                                           ir |-> IrOf(bytecode, config),
                                           again |-> log.prev # <<>>
                                                     /\ log.prev[1].raw = bytecode.raw]>>]
              ELSE log
    /\ UNCHANGED <<out_dir, config, function_counter, backend, bytecode, call_vars>>

BackendStep(at, call, ok, next) ==
    /\ stage = at
    /\ Step(call, ok, next)
    /\ UNCHANGED <<out_dir, config, function_counter, backend, bytecode, call_vars, log>>

\* the name new_name gave the function being compiled
name == function_counter - 1

\* the dump closure: filename = format!("{name}.{kind}.{ext}"), written to
\* dir.join(filename) by backend.dump_ir / dump_disasm (a path is the
\* sequence of its components)
DumpStep(at, call, kind, ext, ok, next) ==
    /\ stage = at
    /\ Step(call, ok, next)
    /\ log' = IF ok
              THEN [log EXCEPT !.dumps = Append(@, Append(DumpDir, <<name, kind, ext>>))]
              ELSE log
    /\ UNCHANGED <<out_dir, config, function_counter, backend, bytecode, call_vars>>

dump_unopt_ir(ok) == DumpStep("dump_unopt_ir", "dump_ir", "unopt", "ir", ok, "verify")

verify_function(ok) ==
    BackendStep("verify", "verify_function", ok,
                IF out_dir = "Some" THEN "dump_unopt_disasm" ELSE "optimize")

dump_unopt_disasm(ok) ==
    DumpStep("dump_unopt_disasm", "dump_disasm", "unopt", "s", ok, "optimize")

optimize_function(ok) ==
    BackendStep("optimize", "optimize_function", ok,
                IF out_dir = "Some" THEN "dump_opt_ir" ELSE "finalize")

dump_opt_ir(ok) == DumpStep("dump_opt_ir", "dump_ir", "opt", "ir", ok, "dump_opt_disasm")

dump_opt_disasm(ok) == DumpStep("dump_opt_disasm", "dump_disasm", "opt", "s", ok, "finalize")

\* self.backend.get_function(name).map(JitEvmFn::new)
get_function(ok) ==
    /\ stage = "finalize"
    /\ trace' = Append(trace, "get_function")
    /\ stage' = "returned"
    /\ outcome' = IF ok THEN "Ok" ELSE "Err"
    /\ UNCHANGED <<out_dir, config, function_counter, backend, bytecode, call_vars, log>>

\* compile has returned to its caller
Return ==
    /\ stage = "returned"
    /\ stage' = "idle"
    /\ trace' = <<>>
    /\ outcome' = "None"
    /\ bytecode' = NoBytecode
    /\ UNCHANGED <<out_dir, config, function_counter, backend, call_vars, log>>

NextJit ==
    \/ \E d \in {"None", "Some"} : set_dump_to(d)
    \/ \E l \in {"None", "Aggressive"} : set_opt_level(l)
    \/ \E yes \in BOOLEAN : set_debug_assertions(yes)
    \/ \E yes \in BOOLEAN : set_pass_stack_through_args(yes)
    \/ \E yes \in BOOLEAN : set_pass_stack_len_through_args(yes)
    \/ \E yes \in BOOLEAN : set_disable_gas(yes)
    \/ \E yes \in BOOLEAN : set_store_gas_used(yes)
    \/ \E l \in {<<>>, <<StaticLimit>>} : set_static_gas_limit(l)
    \/ free_all_functions
    \/ \E raw \in JitPrograms : compile(raw, "CANCUN")
    \/ \E ok \in BOOLEAN : parse_bytecode(ok)
    \/ \E ok \in BOOLEAN : build_function(ok)
    \/ translate
    \/ \E ok \in BOOLEAN : dump_unopt_ir(ok)
    \/ \E ok \in BOOLEAN : verify_function(ok)
    \/ \E ok \in BOOLEAN : dump_unopt_disasm(ok)
    \/ \E ok \in BOOLEAN : optimize_function(ok)
    \/ \E ok \in BOOLEAN : dump_opt_ir(ok)
    \/ \E ok \in BOOLEAN : dump_opt_disasm(ok)
    \/ \E ok \in BOOLEAN : get_function(ok)
    \/ Return

SpecJit == InitJit /\ [][NextJit]_vars

-----------------------------------------------------------------------------
\* Properties of one invocation (specification Spec)

\* an opcode has been executed; hist holds the state it was reached in
Ran == hist.opcode >= 0
\* the opcode executed last
Last == OpAt(hist.opcode)
\* the call was made with the pointer arguments its configuration requires
WellFormedCall == args = WellFormedArgs(config)
\* the last opcode's gas deduction was reached
GasReached == Ran /\ "DISABLED" \notin Last.flags /\ ~config.gas_disabled
\* the cost of an opcode: 1 for JUMPDEST, the table's base cost otherwise
CostOf(b) == IF b = op_JUMPDEST THEN 1 ELSE get_gas(b)
\* used + g as the used-gas cell holds it
ChargedGas == (hist.gas_used + CostOf(Last.opcode)) % GasMod
\* the last opcode had enough gas
GasPassed == config.gas_disabled \/ CostOf(Last.opcode) = 0 \/ ~(gas_limit < ChargedGas)
\* the logic of the last opcode was reached
LogicReached ==
    /\ Ran /\ "DISABLED" \notin Last.flags /\ "SKIP_LOGIC" \notin Last.flags
    /\ GasPassed

\* C1: a well-formed invocation never traps, never runs past a block with no
\* terminator and never makes an undefined memory access; it can only stop
\* by returning one of the eight codes.
C1_ReturnsACode ==
    WellFormedCall =>
        /\ result \in ReturnCodes \cup {NoRet}
        /\ pc # NumOps
        /\ hist.undef \notin {"oob", "null"}

\* C2: SWAPn reached with fewer than n+1 elements returns StackUnderflow and
\* touches no stack slot.
C2_SwapUnderflow ==
    (/\ LogicReached
     /\ Last.opcode \in op_SWAP1..op_SWAP16
     /\ hist.len < (Last.opcode - op_SWAP1 + 1) + 1)
    => (result = "StackUnderflow" /\ hist.acc = {})

\* C3: an execution that completes the last opcode of a bytecode whose last
\* opcode is no terminator returns Stop.
C3_FallsOffToStop ==
    (pc = NumOps /\ result # NoRet) => result = "Stop"

\* value shifted by shift, as the EVM defines SHL, SHR and SAR
ShiftOf(b, value, shift) ==
    CASE b = op_SHL -> IF shift >= WordBits THEN 0 ELSE (value * 2^shift) % WordMod
      [] b = op_SHR -> IF shift >= WordBits THEN 0 ELSE value \div 2^shift
      [] b = op_SAR -> IF shift >= WordBits
                       THEN (IF value >= HalfMod THEN WordMod - 1 ELSE 0)
                       ELSE (((value - (IF value >= HalfMod THEN WordMod ELSE 0))
                              \div 2^shift) + WordMod) % WordMod

\* C4: SHL, SHR and SAR take the shift amount from the top of the stack and
\* the value from beneath it, and leave the value shifted by the shift
\* amount in its place, the stack one shorter.
C4_ShiftOperands ==
    (/\ LogicReached
     /\ Last.opcode \in {op_SHL, op_SHR, op_SAR}
     /\ hist.len >= 2)
    => /\ stack_len = hist.len - 1
       /\ StackRead(stack, hist.len - 2)
            = ShiftOf(Last.opcode, StackRead(hist.stack, hist.len - 2),
                      StackRead(hist.stack, hist.len - 1))

\* C7: with store_gas_used, gas enabled and the used-gas cell 0 at the call,
\* a call that returns Stop leaves in the cell the sum of the costs of the
\* opcodes executed (the sum as the cell holds it).
C7_GasIsSumOfCosts ==
    (/\ config.store_gas_used /\ ~config.gas_disabled
     /\ hist.used0 = 0
     /\ result = "Stop")
    => gas_used = hist.cost_sum % GasMod

C7_Witness ==
    /\ config.store_gas_used /\ ~config.gas_disabled
    /\ hist.used0 = 0
    /\ result = "Stop" /\ pc # NumOps
    /\ hist.steps >= 4
    /\ hist.cost_sum >= 14
    /\ gas_used = hist.cost_sum

GuardNeeds(d) ==
    CASE d.opcode \in {op_ADD, op_MUL, op_SUB, op_DIV, op_SDIV, op_MOD, op_SMOD,
                       op_LT, op_GT, op_SLT, op_SGT, op_EQ, op_AND, op_OR, op_XOR,
                       op_SHL, op_SHR, op_SAR} -> 2
      [] d.opcode \in {op_ISZERO, op_NOT, op_POP} -> 1
      [] d.opcode = op_JUMPI /\ "INVALID_JUMP" \notin d.flags -> 1
      [] d.opcode \in op_DUP1..op_DUP16 -> d.opcode - op_DUP1 + 1
      [] d.opcode \in op_SWAP1..op_SWAP16 -> d.opcode - op_SWAP1 + 1
      [] OTHER -> 0

\* the elements an opcode's lowering adds once its guard for popping passed
GuardPushes(d) ==
    IF d.opcode = op_PC \/ d.opcode \in op_PUSH0..op_PUSH32
       \/ d.opcode \in op_DUP1..op_DUP16
    THEN 1 ELSE 0

Underflows == LogicReached /\ hist.len < GuardNeeds(Last)
Overflows ==
    LogicReached /\ ~(hist.len < GuardNeeds(Last))
    /\ hist.len + GuardPushes(Last) > STACK_CAP

\* C9: an opcode with enough gas whose stack guard fails returns
\* StackUnderflow (or StackOverflow) with the stack length and contents as
\* they were, the used gas including the opcode's cost.
C9_GuardFailureKeepsStack ==
    (Underflows \/ Overflows)
    => /\ result = IF Underflows THEN "StackUnderflow" ELSE "StackOverflow"
       /\ stack_len = hist.len
       /\ stack = hist.stack
       /\ ~config.gas_disabled => gas_used = ChargedGas

C9_Witness ==
    /\ Underflows
    /\ Last.opcode = op_ADD /\ hist.opcode = 1
    /\ hist.used0 = 0
    /\ result = "StackUnderflow"
    /\ stack_len = 1 /\ StackRead(stack, 0) = 0
    /\ gas_used = 5

\* the last opcode's lowering goes through push, pushn, popn or dup
ChangesLength ==
    Last.opcode \notin op_SWAP1..op_SWAP16
    /\ (GuardNeeds(Last) > 0 \/ GuardPushes(Last) > 0)

PaddedImm(d) ==
    get_imm_of(bytecode.raw, d)
    \o [i \in 1..(ImmLen(d.opcode) - Len(get_imm_of(bytecode.raw, d))) |-> 0]

\* C14: a PUSHn pushes its n-byte big-endian immediate, and one whose
\* immediate is cut short by the end of the bytecode pushes the bytes there
\* are left-aligned in the n bytes, the missing low-order bytes zero (PUSH2
\* followed by the single byte 0x01 pushes 0x0100).
C14_TruncatedPushPadsRight ==
    (/\ WellFormedCall /\ LogicReached
     /\ Last.opcode \in op_PUSH1..op_PUSH32
     /\ hist.len < STACK_CAP)
    => /\ stack_len = hist.len + 1
       /\ StackRead(stack, hist.len) = from_be_slice(PaddedImm(Last))

\* C15: with gas_disabled the static gas limit has no effect: whatever its
\* value (None or Some(L)), the emitted function requires the same of
\* gas_ptr (null or non-null), makes the same accesses through it and ends
\* its entry block the same way.
C15_StaticLimitIdleWithoutGas ==
    config.gas_disabled
    => \A l \in {<<>>, <<StaticLimit>>} :
          /\ gas_ptr_must_be_set([config EXCEPT !.static_gas_limit = l])
               = gas_ptr_must_be_set(config)
          /\ loads_gas_limit([config EXCEPT !.static_gas_limit = l])
               = loads_gas_limit(config)
          /\ EntryOf([config EXCEPT !.static_gas_limit = l], args)
               = EntryOf(config, args)

\* C16: with static_gas_limit = Some(L) and gas accounting enabled the
\* function takes no account of the limit cell of the gas struct (limit0 when
\* it was called): called with no more than L used, the limit its gas checks
\* compare with is L, and an opcode whose gas deduction is reached returns
\* OutOfGas exactly when used + cost exceeds L, the used-gas cell then as it
\* was and used + cost otherwise.
C16_StaticLimitReplacesArgument ==
    (/\ WellFormedCall
     /\ config.static_gas_limit # <<>> /\ ~config.gas_disabled
     /\ hist.used0 <= config.static_gas_limit[1]
     /\ pc >= 0)
    => /\ gas_limit = config.static_gas_limit[1] % GasMod
       /\ (GasReached /\ pc # NumOps)
          => /\ result = "OutOfGas"
                <=> hist.gas_used + CostOf(Last.opcode) > config.static_gas_limit[1]
             /\ gas_used = IF result = "OutOfGas" THEN hist.gas_used
                           ELSE hist.gas_used + CostOf(Last.opcode)

\* OutOfGas under the static limit although the limit cell held more than
\* used + cost
C16_Witness ==
    /\ WellFormedCall
    /\ config.static_gas_limit # <<>> /\ ~config.gas_disabled
    /\ GasReached /\ pc # NumOps
    /\ result = "OutOfGas"
    /\ hist.limit0 > hist.gas_used + CostOf(Last.opcode)

\* the bytecode was translated to a function whose blocks all end in a
\* terminator
Compiles == Translates(bytecode.opcodes) /\ WellFormedIR(bytecode.opcodes)

\* the call has returned ret with the stack, its length and the used gas as
\* they were when the function was called, and no stack slot touched
ReturnsUntouched(ret) ==
    /\ result = ret
    /\ stack_len = hist.len /\ stack = hist.stack /\ hist.acc = {}
    /\ gas_used = hist.used0

\* C17: a bytecode that is the single byte of an opcode with no lowering
\* (0x21) compiles, and its function returns OpcodeNotFound with the stack
\* unchanged and no gas used; a single INVALID returns InvalidFEOpcode
\* likewise.
C17_SingleUnloweredOpcode ==
    (WellFormedCall /\ bytecode.raw \in {<<op_UNKNOWN21>>, <<op_INVALID>>})
    => /\ Compiles
       /\ NumOps = 1
       /\ pc \in {-1, 0}
       /\ Ran \/ (result = NoRet /\ hist.steps = 0)
       /\ Ran => ReturnsUntouched(IF bytecode.raw = <<op_INVALID>>
                                  THEN "InvalidFEOpcode" ELSE "OpcodeNotFound")

\* the function of [0x21] has returned, called with a non-empty stack and
\* some gas already used
C17_Witness ==
    /\ WellFormedCall /\ bytecode.raw = <<op_UNKNOWN21>>
    /\ Ran /\ result = "OpcodeNotFound"
    /\ hist.len = 3 /\ hist.used0 = 7

\* C18: compiling empty input does not trip the translator's assertion (the
\* analyzed opcode sequence is the one synthesized STOP), and the emitted
\* function returns Stop with the stack length it was called with (0 for an
\* empty stack) and no gas used.
C18_EmptyInputStops ==
    (WellFormedCall /\ bytecode.raw = <<>>)
    => /\ bytecode.opcodes # <<>>
       /\ Compiles
       /\ pc \in {-1, 0}
       /\ Ran \/ (result = NoRet /\ hist.steps = 0)
       /\ Ran => ReturnsUntouched("Stop")

\* the function of the empty bytecode has returned Stop on an empty stack
C18_Witness ==
    /\ WellFormedCall /\ bytecode.raw = <<>>
    /\ Ran /\ result = "Stop"
    /\ stack_len = 0 /\ gas_used = 0
    /\ ~config.gas_disabled /\ config.store_gas_used

\* the quotient or remainder of a by b (b # 0) as the EVM defines DIV, MOD,
\* SDIV and SMOD: the signed ones truncate toward zero, the remainder takes
\* the sign of a, and the result is taken at the word width
QuotRem(op_byte, a, b) ==
    CASE op_byte = op_DIV -> a \div b
      [] op_byte = op_MOD -> a % b
      [] op_byte = op_SDIV ->
            Wrap((IF (ToSigned(a) < 0) # (ToSigned(b) < 0) THEN -1 ELSE 1)
                 * (Abs(ToSigned(a)) \div Abs(ToSigned(b))))
      [] op_byte = op_SMOD ->
            Wrap((IF ToSigned(a) < 0 THEN -1 ELSE 1)
                 * (Abs(ToSigned(a)) % Abs(ToSigned(b))))

\* C19: DIV, MOD, SDIV and SMOD with a on top of the stack and b beneath it
\* leave the stack one shorter with, in place of b, 0 when b = 0 (no divide
\* or remainder being executed: the block goes on without a trap) and the
\* quotient or remainder of a by b when b # 0.
C19_DivideGuardsZero ==
    (/\ WellFormedCall /\ LogicReached
     /\ Last.opcode \in {op_DIV, op_MOD, op_SDIV, op_SMOD}
     /\ hist.len >= 2)
    => /\ result = NoRet
       /\ hist.undef = "none"
       /\ stack_len = hist.len - 1
       /\ StackRead(stack, hist.len - 2)
            = IF StackRead(hist.stack, hist.len - 2) = 0 THEN 0
              ELSE QuotRem(Last.opcode, StackRead(hist.stack, hist.len - 1),
                           StackRead(hist.stack, hist.len - 2))

\* C20: a PUSH immediately followed by a statically resolved JUMP, and then
\* that JUMP, leave the stack and its length as they were before the PUSH
\* (the target is neither left on the stack nor popped from it), with control
\* at the target JUMPDEST and the gas of both the PUSH and the JUMP charged.
\* (The step is the JUMP's: before it hist holds the state the PUSH was
\* reached in.)
C20_PushJumpKeepsStack ==
    [][(/\ WellFormedCall
        /\ Ran /\ "SKIP_LOGIC" \in Last.flags /\ "DISABLED" \notin Last.flags
        /\ result = NoRet /\ pc = hist.opcode + 1 /\ pc < NumOps
        /\ Cur.opcode = op_JUMP
        /\ "STATIC_JUMP" \in Cur.flags /\ "INVALID_JUMP" \notin Cur.flags
        /\ result' = NoRet)
       => /\ stack_len' = hist.len
          /\ stack' = hist.stack
          /\ pc' = Cur.data
          /\ OpAt(pc').opcode = op_JUMPDEST
          /\ gas_used' = IF config.gas_disabled THEN hist.gas_used
                         ELSE (hist.gas_used + CostOf(Last.opcode)
                               + CostOf(Cur.opcode)) % GasMod]_vars

\* the JUMP of [PUSH1 3, JUMP, JUMPDEST] has been taken on a stack of two
\* elements: 3 + 8 gas charged, the two elements as they were
C20_Witness ==
    /\ WellFormedCall /\ ~config.gas_disabled
    /\ Ran /\ Last.opcode = op_JUMP /\ "STATIC_JUMP" \in Last.flags
    /\ hist.opcode = 1 /\ OpAt(0).opcode = op_PUSH1
    /\ result = NoRet
    /\ pc = Last.data /\ Cur.opcode = op_JUMPDEST
    /\ stack_len = 2 /\ stack = StackOf(<<2, 1, 0, 5>>)
    /\ gas_used = hist.used0 + 11

\* C21: a JUMPI flagged STATIC_JUMP and not INVALID_JUMP pops one word, the
\* condition, and nothing else: control goes on in the block of the target
\* JUMPDEST when the condition is non-zero and in the block of opcode i+1
\* when it is zero; reached with an empty stack it returns StackUnderflow.
C21_StaticJumpiBranches ==
    (/\ WellFormedCall /\ LogicReached
     /\ Last.opcode = op_JUMPI
     /\ "STATIC_JUMP" \in Last.flags /\ "INVALID_JUMP" \notin Last.flags)
    => /\ stack = hist.stack
       /\ OpAt(Last.data).opcode = op_JUMPDEST
       /\ IF hist.len = 0
          THEN result = "StackUnderflow" /\ stack_len = 0 /\ pc = hist.opcode
          ELSE /\ result = NoRet
               /\ stack_len = hist.len - 1
               /\ hist.acc = {hist.len - 1}
               /\ pc = IF StackRead(hist.stack, hist.len - 1) # 0
                       THEN Last.data ELSE hist.opcode + 1

\* a static JUMPI, not the jump back of a loop's end, fell through on a zero
\* condition
C21_Witness ==
    /\ WellFormedCall /\ LogicReached
    /\ Last.opcode = op_JUMPI
    /\ "STATIC_JUMP" \in Last.flags /\ "INVALID_JUMP" \notin Last.flags
    /\ hist.len >= 1 /\ StackRead(hist.stack, hist.len - 1) = 0
    /\ result = NoRet /\ pc = hist.opcode + 1 /\ pc # Last.data

\* C22: a JUMP or JUMPI flagged INVALID_JUMP whose arm is reached returns
\* InvalidJump, for JUMPI whatever the condition (and with no condition on
\* the stack at all), and pops nothing: the stack, its length and every slot
\* are untouched.
C22_InvalidJumpReturns ==
    (/\ WellFormedCall /\ LogicReached
     /\ Last.opcode \in {op_JUMP, op_JUMPI}
     /\ "INVALID_JUMP" \in Last.flags)
    => /\ result = "InvalidJump"
       /\ pc = hist.opcode
       /\ stack_len = hist.len /\ stack = hist.stack /\ hist.acc = {}

\* an invalid JUMPI returned InvalidJump on an empty stack
C22_Witness ==
    /\ WellFormedCall /\ LogicReached
    /\ Last.opcode = op_JUMPI /\ "INVALID_JUMP" \in Last.flags
    /\ hist.len = 0
    /\ result = "InvalidJump"

\* the ABI preconditions on the three pointers: gas_ptr null iff gas is
\* disabled, the used gas is not stored and a static limit is set; sp_ptr
\* non-null iff stack_through_args; stack_len_ptr non-null iff
\* pass_stack_len_through_args
AbiHolds ==
    /\ args.gas_null <=> (/\ config.gas_disabled /\ ~config.store_gas_used
                          /\ config.static_gas_limit # <<>>)
    /\ ~args.sp_null <=> config.stack_through_args
    /\ ~args.len_null <=> config.pass_stack_len_through_args

\* C23: with debug assertions the emitted function calls the panic hook in
\* its entry block exactly when one of the ABI preconditions is violated, and
\* before the pointer concerned is dereferenced: the entry block ends in the
\* panic and in nothing else (no trap on a null pointer, no opcode run), and
\* control gets past it only when all three preconditions hold.
C23_EntryPanicsOnBadPointers ==
    config.debug_assertions
    => /\ (pc = -1 /\ result # NoRet) => (result = "Panic" /\ ~AbiHolds)
       /\ pc >= 0 => AbiHolds
       /\ result = "Panic" => (pc = -1 /\ hist.steps = 0 /\ hist.derefs = {})
       /\ hist.undef # "null"

\* the panic for a gas pointer that had to be null, the other two as required
C23_Witness ==
    /\ config.debug_assertions
    /\ config.gas_disabled /\ ~config.store_gas_used /\ config.static_gas_limit # <<>>
    /\ ~args.gas_null
    /\ ~args.sp_null <=> config.stack_through_args
    /\ ~args.len_null <=> config.pass_stack_len_through_args
    /\ result = "Panic"

\* C24: an invocation reads and writes no memory but what its three
\* arguments point to and its own locals, so that invocations interleaved on
\* disjoint gas structs, stack buffers and length cells each end as if run
\* alone: every access through the stack pointer is to one of the STACK_CAP
\* words of the invocation's own buffer, and control never leaves the code of
\* the function.
C24_TouchesOnlyItsArguments ==
    WellFormedCall
    => /\ \A i \in hist.acc : InBuf(i)
       /\ hist.derefs \subseteq {"gas", "sp", "len"}
       /\ pc # NumOps

\* the n of the SWAPn or DUPn with opcode byte b
SwapN(b) == b - op_SWAP1 + 1

\* C25: SWAPn (n = 1..16) executed with a stack length of at least n+1
\* exchanges stack[len-1] with stack[len-n-1] and leaves the stack length and
\* every other slot unchanged.
C25_SwapExchanges ==
    (/\ WellFormedCall /\ LogicReached
     /\ Last.opcode \in op_SWAP1..op_SWAP16
     /\ hist.len >= SwapN(Last.opcode) + 1)
    => /\ result = NoRet
       /\ stack_len = hist.len
       /\ hist.acc = {hist.len - 1, hist.len - SwapN(Last.opcode) - 1}
       /\ stack = StackWrite(StackWrite(hist.stack, hist.len - 1,
                                        StackRead(hist.stack,
                                                  hist.len - SwapN(Last.opcode) - 1)),
                             hist.len - SwapN(Last.opcode) - 1,
                             StackRead(hist.stack, hist.len - 1))

\* SWAP2 exchanged two different words of a stack of three
C25_Witness ==
    /\ WellFormedCall /\ LogicReached
    /\ Last.opcode = op_SWAP2 /\ hist.len = 3
    /\ StackRead(hist.stack, 2) # StackRead(hist.stack, 0)
    /\ StackRead(stack, 2) = StackRead(hist.stack, 0)
    /\ StackRead(stack, 0) = StackRead(hist.stack, 2)
    /\ StackRead(stack, 1) = StackRead(hist.stack, 1)
    /\ stack_len = 3

\* C27: on a stack of length below STACK_CAP a PUSH of X immediately followed
\* by POP leaves the stack length and every slot below the original length
\* unchanged.  (The step is the POP's: before it hist holds the state the
\* PUSH was reached in.)
C27_PushPopRestores ==
    [][(/\ WellFormedCall /\ LogicReached
        /\ Last.opcode \in op_PUSH0..op_PUSH32
        /\ hist.len < STACK_CAP
        /\ result = NoRet /\ pc = hist.opcode + 1 /\ pc < NumOps
        /\ Cur.opcode = op_POP
        /\ result' = NoRet)
       => /\ stack_len' = hist.len
          /\ \A i \in DOMAIN stack'.w \cup DOMAIN hist.stack.w :
                i < hist.len => StackRead(stack', i) = StackRead(hist.stack, i)
          /\ stack'.base = hist.stack.base]_vars

\* PUSH1 7, POP on a stack of STACK_CAP - 1 words: the length is back, the
\* pushed word still in the slot above
C27_Witness ==
    /\ WellFormedCall /\ LogicReached
    /\ Last.opcode = op_POP
    /\ hist.opcode = 1 /\ OpAt(0).opcode = op_PUSH1
    /\ hist.len = STACK_CAP
    /\ stack_len = STACK_CAP - 1
    /\ StackRead(stack, STACK_CAP - 1) = 7
    /\ result = NoRet

\* C28: ADD, SUB and MUL pop a (the top of the stack) and b (beneath it) and
\* push a + b, a - b and a * b reduced modulo 2^WordBits; the stack is one
\* shorter, the slots below the result are unchanged and control goes on to
\* the next opcode.
C28_ArithmeticWraps ==
    (/\ WellFormedCall /\ LogicReached
     /\ Last.opcode \in {op_ADD, op_SUB, op_MUL}
     /\ hist.len >= 2)
    => /\ pc = hist.opcode + 1
       /\ hist.undef = "none"
       /\ stack_len = hist.len - 1
       /\ StackRead(stack, hist.len - 2)
            = (CASE Last.opcode = op_ADD ->
                      StackRead(hist.stack, hist.len - 1)
                      + StackRead(hist.stack, hist.len - 2)
                 [] Last.opcode = op_SUB ->
                      StackRead(hist.stack, hist.len - 1)
                      - StackRead(hist.stack, hist.len - 2)
                 [] Last.opcode = op_MUL ->
                      StackRead(hist.stack, hist.len - 1)
                      * StackRead(hist.stack, hist.len - 2)) % WordMod
       /\ \A i \in DOMAIN stack.w \cup DOMAIN hist.stack.w :
             i < hist.len - 2 => StackRead(stack, i) = StackRead(hist.stack, i)
       /\ stack.base = hist.stack.base

\* SUB computed 1 - 2: the largest word replaced the 2, one slot down
C28_Witness ==
    /\ WellFormedCall /\ LogicReached
    /\ Last.opcode = op_SUB /\ hist.len = 2
    /\ StackRead(hist.stack, 1) = 1 /\ StackRead(hist.stack, 0) = 2
    /\ StackRead(stack, 0) = WordMod - 1
    /\ stack_len = 1 /\ pc = 1

\* the input of a Fibonacci run: the PUSH2 immediate, or the word the caller
\* put in slot 0 when the program starts with the three JUMPDESTs
FibDynamic == bytecode.raw[1] = op_JUMPDEST
FibInput == IF FibDynamic THEN stack.base[1] ELSE bytecode.raw[2] * 256 + bytecode.raw[3]
FibDone ==
    /\ result = "Stop"
    /\ stack_len = 1
    /\ StackRead(stack, 0) = fibonacci_rust(FibInput + 1)

C31_EveryCallReturns == <>(result \in ReturnCodes)

-----------------------------------------------------------------------------
\* Properties of the driver (specification SpecJit)

\* the calls of one compile that succeeds, in the order compile_bytecode
\* makes them
CallOrder(dbg, dump) ==
    <<"parse">>
    \o (IF dbg THEN <<"add_callback_function">> ELSE <<>>)
    \o <<"build_function", "translate">>
    \o (IF dump THEN <<"dump_ir", "verify_function", "dump_disasm">>
        ELSE <<"verify_function">>)
    \o <<"optimize_function">>
    \o (IF dump THEN <<"dump_ir", "dump_disasm">> ELSE <<>>)
    \o <<"get_function">>

IsPrefix(s, t) == Len(s) <= Len(t) /\ \A i \in 1..Len(s) : s[i] = t[i]

\* C5 (as stated): the function has been verified before any IR dump of it
\* is written.
C5_VerifiedBeforeDump ==
    \A i \in 1..Len(trace) :
        trace[i] = "dump_ir" => \E j \in 1..(i - 1) : trace[j] = "verify_function"

\* C5 (amended): the stages run in the order parse, translate, dump of the
\* unoptimized IR, verify, dump of the unoptimized disassembly, optimize,
\* dump of the optimized IR and disassembly, finalize, the dumps only with a
\* dump directory; a compile that returns a function has run them all.
C5_StageOrder ==
    /\ IsPrefix(trace, CallOrder(config.debug_assertions, out_dir = "Some"))
    /\ outcome = "Ok" => trace = CallOrder(config.debug_assertions, out_dir = "Some")

\* a compile that dumped the unoptimized IR and then failed verification
C5_Witness ==
    /\ out_dir = "Some"
    /\ stage = "returned" /\ outcome = "Err"
    /\ Len(trace) >= 5
    /\ trace[Len(trace)] = "verify_function"
    /\ trace[Len(trace) - 1] = "dump_ir"

\* a JUMP or JUMPI flagged neither STATIC_JUMP nor INVALID_JUMP
IsDynamicJump(d) ==
    /\ d.opcode \in {op_JUMP, op_JUMPI}
    /\ "STATIC_JUMP" \notin d.flags
    /\ "INVALID_JUMP" \notin d.flags

\* C6: compiling a bytecode with a JUMP or JUMPI flagged neither STATIC_JUMP
\* nor INVALID_JUMP never aborts the compiler.
C6_DynamicJumpNeverAborts ==
    (\E k \in 1..Len(bytecode.opcodes) : IsDynamicJump(bytecode.opcodes[k]))
    => stage # "aborted"

\* C11: when a dump directory D is configured, a successful compile writes
\* exactly four dump files (unoptimized IR, unoptimized disassembly, optimized
\* IR, optimized disassembly, in that order), each of them in the
\* subdirectory of D named after the backend ("backend" below, as in
\* set_dump_to's documentation: "Creates a subdirectory with the name of the
\* backend in the given directory").
C11_DumpsInBackendSubdir ==
    (stage = "returned" /\ outcome = "Ok" /\ out_dir = "Some")
    => log.dumps = << <<"D", "backend", <<name, "unopt", "ir">>>>,
                      <<"D", "backend", <<name, "unopt", "s">>>>,
                      <<"D", "backend", <<name, "opt", "ir">>>>,
                      <<"D", "backend", <<name, "opt", "s">>>> >>

\* C12 as stated: every compile call, successful or failing, allocates the
\* name __evm_bytecode_{k} where k is the number of compile calls made before
\* it, so the counter equals the number of compile calls that got as far.
C12_NameCountsCompileCalls ==
    /\ \A i \in 1..Len(log.names) : log.names[i].k = log.names[i].call
    /\ stage \in {"idle", "returned", "aborted"} => function_counter = log.calls

\* C12: across compile calls, setter calls and free_all_functions calls,
\* every compile call whose bytecode parses allocates the name
\* __evm_bytecode_{k} where k is the number of earlier compile calls that
\* parsed: the counter is the number of names allocated (one more per such
\* call, unchanged by a call that fails in parsing and by every other
\* method), a compile call allocates at most one name, and no name is used
\* by two compile calls.
C12_NameCountsParsedCalls ==
    /\ function_counter = Len(log.names)
    /\ \A i \in 1..Len(log.names) :
          /\ log.names[i].k = i - 1
          /\ log.names[i].call < log.calls
    /\ \A i, j \in 1..Len(log.names) :
          i < j => /\ log.names[i].call < log.names[j].call
                   /\ log.names[i].k # log.names[j].k

\* two compile calls were named, the second after a call that failed in parsing
C12_Witness ==
    /\ stage = "returned" /\ outcome = "Ok"
    /\ Len(log.names) = 2
    /\ log.names[2] = [call |-> 2, k |-> 1]

\* C13: when parsing, function building, translation, verification, a dump
\* or optimization returns an error, compile returns that error at once: the
\* failing call is the last call of the pipeline (the calls made are a prefix
\* of the pipeline's order that stops before get_function), and the next
\* thing that happens is the return to the caller with no function handle,
\* the counter and the configuration as the failing call left them.
C13_ErrorReturnsAtOnce ==
    [][(outcome = "Err" /\ trace[Len(trace)] # "get_function")
       => /\ stage = "returned"
          /\ IsPrefix(trace, CallOrder(config.debug_assertions, out_dir = "Some"))
          /\ \A i \in 1..Len(trace) : trace[i] # "get_function"
          /\ stage' = "idle" /\ outcome' = "None" /\ trace' = <<>>
          /\ UNCHANGED <<out_dir, config, function_counter, backend, log>>]_vars

\* optimization failed in a compile with a dump directory: two dumps were
\* written, the two dumps of the optimized function and get_function were not
\* reached
C13_Witness ==
    /\ stage = "returned" /\ outcome = "Err"
    /\ out_dir = "Some"
    /\ trace[Len(trace)] = "optimize_function"
    /\ Len(log.dumps) = 2

-----------------------------------------------------------------------------
\* FunctionCx::translate opcode by opcode: the branches to opcode blocks and
\* the seals of opcode blocks that the translator asks of the builder.  trace
\* holds these calls in the order they are made, each with the opcode blocks
\* it names and the opcode being translated (-1 for the entry block).

\* translate_opcode for the opcode with index k.
\*   returns: the arm is goto_return!(build ..) or build_return, which emits
\*     ret and then seal_block(current_block);
\*   in_op_block: no build_failure precedes the arm, so the current block is
\*     still the opcode's own (gas_cost_imm emits nothing for a cost of 0);
\*   otherwise the arm of a static JUMP / JUMPI branches, and every other arm
\*     ends in branch_to_next_opcode; the epilogue seals the opcode's block
BlockCalls(ops, c, k) ==
    LET d == ops[k + 1]
        returns ==
            \/ "DISABLED" \in d.flags
            \/ /\ "SKIP_LOGIC" \notin d.flags
               /\ \/ d.opcode \in {op_STOP, op_INVALID}
                  \/ ~IsLowered(d.opcode)
                  \/ d.opcode \in {op_JUMP, op_JUMPI} /\ "INVALID_JUMP" \in d.flags
        in_op_block ==
            \/ "DISABLED" \in d.flags
            \/ c.gas_disabled \/ "SKIP_GAS" \in d.flags
            \/ OpcodeGas(d.opcode) = 0
    IN (IF returns
        THEN IF in_op_block
             THEN <<[op |-> "seal_block", blocks |-> {k}, at |-> k]>>
             ELSE <<>>
        ELSE IF "SKIP_LOGIC" \notin d.flags /\ d.opcode \in {op_JUMP, op_JUMPI}
        THEN IF d.opcode = op_JUMPI
             THEN <<[op |-> "brif", blocks |-> {d.data, k + 1}, at |-> k]>>
             ELSE <<[op |-> "br", blocks |-> {d.data}, at |-> k]>>
        ELSE IF k + 1 < Len(ops)
        THEN <<[op |-> "br", blocks |-> {k + 1}, at |-> k]>>
        ELSE <<>>)
       \o <<[op |-> "seal_block", blocks |-> {k}, at |-> k]>>

\* fx.current_opcode: the opcode whose block comes next
current_opcode == trace[Len(trace)].at + 1

\* a bytecode that parsed, about to be translated
InitTranslate ==
    /\ out_dir = "None"
    /\ config \in {TestConfig, [TestConfig EXCEPT !.gas_disabled = TRUE]}
    /\ function_counter = 1
    /\ backend = CompiledBackend
    /\ stage = "translate"
    /\ trace = <<>>
    /\ outcome = "None"
    /\ log = [NoLog EXCEPT !.calls = 1, !.names = <<[call |-> 0, k |-> 0]>>]
    /\ \E raw \in Programs \cup FibonacciPrograms, fork \in {"CANCUN", "LONDON"} :
          bytecode = Analyze(raw, fork)
    /\ NoCall

\* bcx.br(op_blocks[0]) at the end of the entry block
translate_entry ==
    /\ stage = "translate" /\ trace = <<>>
    /\ trace' = <<[op |-> "br", blocks |-> {0}, at |-> -1]>>
    /\ UNCHANGED <<out_dir, config, function_counter, backend, stage, outcome, log,
                   bytecode, call_vars>>

\* one round of the loop: fx.current_opcode = i; fx.translate_opcode()?, which
\* emits the opcode's block or panics
translate_loop ==
    /\ stage = "translate" /\ trace # <<>>
    /\ current_opcode < Len(bytecode.opcodes)
    /\ IF TranslateAbort(bytecode.opcodes, current_opcode) = "none"
       THEN /\ trace' = trace \o BlockCalls(bytecode.opcodes, config, current_opcode)
            /\ UNCHANGED <<stage, outcome>>
       ELSE /\ stage' = "aborted"
            /\ outcome' = "Panic"
            /\ trace' = trace
    /\ UNCHANGED <<out_dir, config, function_counter, backend, log, bytecode, call_vars>>

NextTranslate == translate_entry \/ translate_loop

SpecTranslate == InitTranslate /\ [][NextTranslate]_vars

\* an opcode is a static jump whose arm translate_opcode reaches
StaticJumpAt(ops, k) ==
    /\ ops[k + 1].opcode \in {op_JUMP, op_JUMPI}
    /\ "STATIC_JUMP" \in ops[k + 1].flags /\ "INVALID_JUMP" \notin ops[k + 1].flags
    /\ "DISABLED" \notin ops[k + 1].flags

C33_StaticJumpiHasSuccessor ==
    \A k \in 0..(Len(bytecode.opcodes) - 1) :
        (/\ trace # <<>>
         /\ current_opcode > k \/ (current_opcode = k /\ stage = "aborted")
         /\ StaticJumpAt(bytecode.opcodes, k)
         /\ bytecode.opcodes[k + 1].opcode = op_JUMPI)
        => /\ k + 1 < Len(bytecode.opcodes)
           /\ outcome # "Panic"

\* C30 (as stated): no branch to an opcode block is emitted after that block
\* has been sealed, backward static jumps included.
C30_NoBranchAfterSeal ==
    \A p \in DOMAIN trace, q \in DOMAIN trace :
        (/\ p < q
         /\ trace[p].op = "seal_block"
         /\ trace[q].op \in {"br", "brif"})
        => trace[p].blocks \cap trace[q].blocks = {}

-----------------------------------------------------------------------------
\* Properties of the dump setting (specification SpecJit)

\* comments are emitted, and the backend was last told to dump, exactly when
\* a dump directory is configured
DumpFlagsAgree ==
    /\ config.comments_enabled = (out_dir = "Some")
    /\ backend.is_dumping = (out_dir = "Some")

\* C34: after any sequence of setter and compile calls comment emission is
\* enabled in the translator configuration iff a dump directory is configured,
\* and the dumping flag last given to the backend has the same value; only
\* set_dump_to changes any of the three.
C34_CommentsFollowDumpDir ==
    /\ []DumpFlagsAgree
    /\ [][\/ \E d \in {"None", "Some"} : set_dump_to(d)
          \/ /\ config'.comments_enabled = config.comments_enabled
             /\ backend'.is_dumping = backend.is_dumping
             /\ out_dir' = out_dir]_vars

\* a dump directory was set, other setters were called, and a compile wrote
\* its four dumps and returned
C34_Witness ==
    /\ out_dir = "Some" /\ config.comments_enabled /\ backend.is_dumping
    /\ config.gas_disabled /\ backend.opt_level = "Aggressive"
    /\ log.calls >= 1 /\ Len(log.dumps) = 4
    /\ stage = "idle"

====
